---- MODULE Spec2Model ----
(***************************************************************************)
(* Model of the MCP demo servers' tool functions: get_weather_alerts,      *)
(* get_coordinates and get_weather_forecast, in the SSE variant            *)
(* (SSE/mcp-server-sse/mcp_server_sse.py) and the WebSocket variant        *)
(* (mcp-server/mcp_server.py).  One tool invocation runs at a time; every  *)
(* blocking point of the code (time.sleep, urlopen) is a position of pc,   *)
(* and the upstream's answer is drawn nondeterministically when the        *)
(* blocked call returns.                                                   *)
(*                                                                         *)
(* The SSE variant's request handlers (handle_tool_request,                *)
(* handle_resource_request, handle_prompt_request) wrap those calls, the   *)
(* resource readers and the prompt generator into response envelopes.  The *)
(* handlers never await, so a handler runs from the request to its         *)
(* response without any other coroutine of the event loop in between.      *)
(*                                                                         *)
(* The /mcp/sse stream handler (sse_endpoint.event_generator) is modelled   *)
(* per open stream: its position is the yield or await it is suspended at,  *)
(* and it advances between requests, when the transport resumes it, when a  *)
(* time unit of its wait passes, when the wait ends, when the client leaves.*)
(* Spec is the tool functions and the POST handlers of both variants;       *)
(* SpecServer the SSE server with one client's stream; SpecStream and       *)
(* SpecStreamLive one stream in full; SpecStreams several streams with      *)
(* /health and /mcp/prompts.                                                *)
(*                                                                         *)
(* A Python str whose characters matter is Str(s), s a sequence of          *)
(* one-character strings; None is PyNone; a dict is a function from its    *)
(* keys; a str that is only passed along is a TLA+ string.                 *)
(***************************************************************************)
EXTENDS Integers, Sequences, FiniteSets, TLC

\* ---------------------------------------------------------------- bounds
\* longest `state` argument drawn for get_weather_alerts
MaxStateLen == 3
\* most features in an upstream alerts document
MaxFeatures == 2
\* most periods in an upstream forecast document
MaxPeriods == 8
\* most candidates in one upstream search answer
MaxBatch == 2
\* largest number of days drawn for a weather://report uri
MaxDays == 15
\* largest month number drawn for a climate:// uri
MaxMonth == 13
\* last reading of the clock
MaxClock == 1
\* most /sse streams open at once
MaxStreams == 2
\* the events of a stream that are recorded
MaxEvents == 3

\* ------------------------------------------------------- Python str model
PyNone == [none |-> TRUE]

Str(s) == [str |-> s]

EmptyDict == [k \in {} |-> k]

LowerLetters ==
    <<"a","b","c","d","e","f","g","h","i","j","k","l","m",
      "n","o","p","q","r","s","t","u","v","w","x","y","z">>

UpperLetters ==
    <<"A","B","C","D","E","F","G","H","I","J","K","L","M",
      "N","O","P","Q","R","S","T","U","V","W","X","Y","Z">>

\* str.upper() on one character
UpperChar(c) ==
    IF \E i \in 1..26 : LowerLetters[i] = c
    THEN UpperLetters[CHOOSE i \in 1..26 : LowerLetters[i] = c]
    ELSE c

\* str.upper()
Upper(s) == [i \in 1..Len(s) |-> UpperChar(s[i])]

\* `sub in s` on str
Contains(s, sub) ==
    \E i \in 0..(Len(s) - Len(sub)) : SubSeq(s, i + 1, i + Len(sub)) = sub

\* s.endswith(suf)
EndsWith(s, suf) ==
    /\ Len(s) >= Len(suf)
    /\ SubSeq(s, Len(s) - Len(suf) + 1, Len(s)) = suf

\* dict.get(k, dflt)
DictGet(d, k, dflt) == IF k \in DOMAIN d THEN d[k] ELSE dflt

\* all sequences over S of length at most n
SeqsUpTo(S, n) == UNION {[1..k -> S] : k \in 0..n}

\* ------------------------------------------------------------------ state
VARIABLES
    srv,      \* the server variant this process runs: "sse" or "ws"
    pc,       \* position of the running tool call
    tool,     \* name of the running tool
    args,     \* its arguments
    log,      \* the call's blocking operations, in order: "sleep", "send", "recv"
    sent,     \* the outbound HTTP requests issued by the call, in order
    todo,     \* get_coordinates: search queries not yet issued (search_urls)
    data,     \* get_coordinates: candidates accumulated so far
    answers,  \* what the upstream answered to each request, in order
    outcome,  \* what the call returned or raised
    request,  \* the MCPRequest being handled, with the path it was posted to
    response, \* the MCPResponse the handler returned
    sse_connections, \* the registry: client id -> queue (named by its stream)
    streams   \* the open /sse streams: stream -> its client id, the yield or
              \* await its generator is at, how long its wait has lasted, its
              \* queue and the events it has emitted

vars == <<srv, pc, tool, args, log, sent, todo, data, answers, outcome,
          request, response, sse_connections, streams>>

\* the registry and the streams, touched by the /sse handler alone
ssevars == <<sse_connections, streams>>

Servers == {"sse", "ws"}

NoOutcome == [kind |-> "none"]

\* a function's normal return value
Returned(v) == [kind |-> "return", value |-> v]

\* a raised exception: its Python class and its message
Raised(cls, msg) == [kind |-> "raise", cls |-> cls, msg |-> msg]

\* no request is being handled: the function was invoked directly
NoRequest == [kind |-> "none"]

NoResponse == [kind |-> "none"]

\* the faults urlopen() and json.loads() can raise while a call waits
HttpStatuses == {404, 500, 503}

Faults ==
    {[exc |-> "HTTPError", code |-> c] : c \in HttpStatuses}
        \cup {[exc |-> "URLError", code |-> 0], [exc |-> "JSONDecodeError", code |-> 0]}

\* str(e) of a fault, kept symbolic
FaultText(f) == <<f.exc, f.code>>

Init ==
    /\ srv \in Servers
    /\ pc = "idle"
    /\ tool = "none"
    /\ args = <<>>
    /\ log = <<>>
    /\ sent = <<>>
    /\ todo = <<>>
    /\ data = <<>>
    /\ answers = <<>>
    /\ outcome = NoOutcome
    /\ request = NoRequest
    /\ response = NoResponse
    /\ sse_connections = EmptyDict
    /\ streams = EmptyDict

\* ------------------------------------------------------------ MCPResponse
\* an int, and a str that is only passed along, where None can stand too
Num(n) == [num |-> n]

Lit(s) == [lit |-> s]

\* `not v` for None or a str
PyNot(v) == v = PyNone \/ v = Str(<<>>) \/ v = Lit("")

\* mutant: the request's id is left out of a result envelope
ResultResponse_NoId(id, result) ==
    [jsonrpc |-> "2.0", id |-> PyNone, result |-> result, error |-> PyNone]

\* MCPResponse(id=request.id, result=...)
ResultResponse(id, result) ==
    [jsonrpc |-> "2.0", id |-> id, result |-> result, error |-> PyNone]

\* MCPResponse(id=request.id, error={"code": ..., "message": ...})
ErrorResponse(id, code, message) ==
    [jsonrpc |-> "2.0", id |-> id, result |-> PyNone,
     error |-> [code |-> code, message |-> message]]

\* json.dumps(result, indent=2), kept symbolic
JsonDumps(v) == [json |-> v]

\* mutant: the `except Exception` of handle_tool_request dropped, so a raised
\* exception leaves the handler without a response
ToolResponse_Propagate(req, out) ==
    IF req = NoRequest \/ out.kind # "return" THEN NoResponse
    ELSE ResultResponse(req.id,
            [content |-> <<[type |-> "text", text |-> JsonDumps(out.value)]>>])

\* the end of the tools/call branch once the tool function has returned or
\* raised: the result as text content, an exception as error -32603
ToolResponse(req, out) ==
    IF req = NoRequest \/ out.kind = "none" THEN NoResponse
    ELSE IF out.kind = "return"
         THEN ResultResponse(req.id,
                [content |-> <<[type |-> "text", text |-> JsonDumps(out.value)]>>])
         ELSE ErrorResponse(req.id, -32603, <<"Tool execution failed", out.msg>>)

\* ------------------------------------------------- the response on the wire
\* the JSON object FastAPI sends for a returned MCPResponse: one member per
\* field of the model, a field that is None as null, unless the route asks for
\* None fields to be left out
JsonBody(r, exclude_none) ==
    [k \in {f \in DOMAIN r : ~(exclude_none /\ r[f] = PyNone)} |-> r[k]]

\* the body of the response to a POST: the routes are declared without
\* response_model_exclude_none, which is False by default
Body == JsonBody(response, FALSE)

\* the client's test `'error' in result` on the decoded body
ErrorInResult(result) == "error" \in DOMAIN result

\* ------------------------------------------------------ get_weather_alerts
AlertChars == {"r", "I", "1"}

AlertStateArgs == {PyNone} \cup {Str(s) : s \in SeqsUpTo(AlertChars, MaxStateLen)}

\* `not state` for None or a str
Falsy(s) == s = PyNone \/ s = Str(<<>>)

AlertsValid(state) == ~(Falsy(state) \/ Len(state.str) # 2)

AlertsInvalidText(s) ==
    IF s = "sse" THEN "State must be a 2-letter US state code"
    ELSE "State must be a valid 2-letter US state code"

\* mutant: the `state = state.upper()` line dropped
AlertsUrl_AsGiven(state) == [api |-> "alerts", area |-> state.str]

AlertsUrl(state) == [api |-> "alerts", area |-> Upper(state.str)]

\* the upstream 'properties' objects drawn for a feature
AlertProps ==
    { [event |-> "Flood", headline |-> "h", description |-> "d", severity |-> "Severe",
       certainty |-> "Likely", urgency |-> "Immediate", areaDesc |-> "a",
       effective |-> "t0", expires |-> "t1"],
      [headline |-> "h2"] }

AlertFeatures ==
    {[properties |-> p] : p \in AlertProps} \cup {[id |-> "f"]}

AlertRecordSse(feature) ==
    LET properties == DictGet(feature, "properties", EmptyDict)
    IN  [event |-> DictGet(properties, "event", "Unknown"),
         headline |-> DictGet(properties, "headline", ""),
         description |-> DictGet(properties, "description", ""),
         severity |-> DictGet(properties, "severity", "Unknown"),
         certainty |-> DictGet(properties, "certainty", "Unknown"),
         urgency |-> DictGet(properties, "urgency", "Unknown"),
         areas |-> DictGet(properties, "areaDesc", ""),
         effective |-> DictGet(properties, "effective", ""),
         expires |-> DictGet(properties, "expires", "")]

AlertRecordWs(feature) ==
    LET properties == DictGet(feature, "properties", EmptyDict)
    IN  [headline |-> DictGet(properties, "headline", ""),
         severity |-> DictGet(properties, "severity", ""),
         urgency |-> DictGet(properties, "urgency", ""),
         areas |-> DictGet(properties, "areaDesc", ""),
         description |-> DictGet(properties, "description", "")]

AlertRecord(s, feature) ==
    IF s = "sse" THEN AlertRecordSse(feature) ELSE AlertRecordWs(feature)

\* get_weather_alerts up to its urlopen(): validation, upper-casing, the request
GetWeatherAlerts(state) ==
    /\ tool' = "get_weather_alerts"
    /\ args' = [state |-> state]
    /\ IF AlertsValid(state)
       THEN /\ sent' = <<AlertsUrl(state)>>
            /\ log' = <<"send">>
            /\ pc' = "alerts_http"
            /\ outcome' = NoOutcome
       ELSE /\ sent' = <<>>
            /\ log' = <<>>
            /\ pc' = "done"
            /\ outcome' = Raised("ValueError", <<AlertsInvalidText(srv)>>)
    /\ UNCHANGED <<todo, data, answers>>

\* get_weather_alerts invoked by a caller outside the file (the MCP SDK's
\* dispatcher, a test)
CallGetWeatherAlerts ==
    /\ pc = "idle"
    /\ \E state \in AlertStateArgs : GetWeatherAlerts(state)
    /\ UNCHANGED <<srv, request, response, ssevars>>

\* the alerts document arrives: features flattened in upstream order
AlertsOk ==
    /\ pc = "alerts_http"
    /\ \E features \in SeqsUpTo(AlertFeatures, MaxFeatures) :
        /\ answers' = Append(answers, [features |-> features])
        /\ outcome' = Returned([i \in 1..Len(features) |-> AlertRecord(srv, features[i])])
    /\ log' = Append(log, "recv")
    /\ pc' = "done"
    /\ response' = ToolResponse(request, outcome')
    /\ UNCHANGED <<srv, tool, args, sent, todo, data, request, ssevars>>

\* urlopen() or json.loads() raises: wrapped by `except Exception`
AlertsFault ==
    /\ pc = "alerts_http"
    /\ \E f \in Faults :
        /\ answers' = Append(answers, f)
        /\ outcome' = Raised("RuntimeError", <<"Failed to fetch weather alerts", FaultText(f)>>)
    /\ log' = Append(log, "recv")
    /\ pc' = "done"
    /\ response' = ToolResponse(request, outcome')
    /\ UNCHANGED <<srv, tool, args, sent, todo, data, request, ssevars>>

\* ---------------------------------------------------- get_weather_forecast
LatMax == 90
LonMax == 180
\* the WebSocket variant's slice [:7]
PeriodLimit == 7

Latitudes == {-91, -90, 0, 90, 91}
Longitudes == {-181, -180, 0, 180, 181}

\* mutant: `and` for `or`, so a single out-of-range value passes
CoordinatesValid_BothOut(latitude, longitude) ==
    ~(~(-LatMax <= latitude /\ latitude <= LatMax)
        /\ ~(-LonMax <= longitude /\ longitude <= LonMax))

CoordinatesValid(latitude, longitude) ==
    ~(~(-LatMax <= latitude /\ latitude <= LatMax)
        \/ ~(-LonMax <= longitude /\ longitude <= LonMax))

GridUrl(latitude, longitude) == [api |-> "points", lat |-> latitude, lon |-> longitude]

ForecastUrl(link) == [api |-> "forecast", url |-> link]

ForecastLink == Str(<<"u">>)

\* the grid-point documents the upstream can answer with
GridDocs ==
    { [properties |-> [forecast |-> ForecastLink]],
      [properties |-> [forecast |-> Str(<<>>)]],
      [properties |-> [forecast |-> PyNone]],
      [properties |-> [gridId |-> "BOX"]],
      [properties |-> EmptyDict],
      [properties |-> PyNone],
      [id |-> "g"] }

PeriodKeys ==
    {"name", "temperature", "temperatureUnit", "windSpeed", "windDirection",
     "shortForecast", "detailedForecast"}

\* upstream period i with every field, and with its name alone
FullPeriod(i) ==
    [name |-> ToString(i), temperature |-> ToString(60 + i), temperatureUnit |-> "F",
     windSpeed |-> "5 mph", windDirection |-> "SW", shortForecast |-> "Sunny",
     detailedForecast |-> "Sunny all day"]

BarePeriod(i) == [name |-> ToString(i)]

\* n periods in upstream order; period k (if any) carries its name alone
UpstreamPeriods(n, k) == [i \in 1..n |-> IF i = k THEN BarePeriod(i) ELSE FullPeriod(i)]

\* the forecast documents the upstream can answer with
ForecastDocs ==
    { [properties |-> [updated |-> "t", periods |-> UpstreamPeriods(n, k)]] :
        n \in 0..MaxPeriods, k \in 0..MaxPeriods }
    \cup { [properties |-> [periods |-> UpstreamPeriods(n, 0)]] : n \in {1, MaxPeriods} }
    \cup { [properties |-> [updated |-> "t"]], [id |-> "f"] }

SoftNotCovered(latitude, longitude) ==
    [error |-> "Location not found or outside US National Weather Service coverage area",
     latitude |-> latitude,
     longitude |-> longitude,
     suggestion |-> "Try a location within the United States"]

\* mutant: the `e.code == 404` test dropped, every HTTP error is soft
ForecastFault_AllSoft(s, f, latitude, longitude) ==
    IF f.exc = "HTTPError"
    THEN Returned(SoftNotCovered(latitude, longitude))
    ELSE Raised("RuntimeError", <<"Failed to get weather forecast", FaultText(f)>>)

\* the except clauses of get_weather_forecast, applied to fault f
ForecastFault(s, f, latitude, longitude) ==
    IF s = "sse"
    THEN IF f.exc = "HTTPError"
         THEN IF f.code = 404
              THEN Returned(SoftNotCovered(latitude, longitude))
              ELSE Raised("RuntimeError", <<"HTTP error", FaultText(f)>>)
         ELSE IF f.exc = "URLError"
              THEN Raised("RuntimeError", <<"Network error", FaultText(f)>>)
              ELSE Raised("RuntimeError", <<"Failed to get weather forecast", FaultText(f)>>)
    ELSE Raised("RuntimeError", <<"Failed to fetch weather forecast", FaultText(f)>>)

LocalFault(cls) == [exc |-> cls, code |-> 0]

\* mutant: the `if not forecast_url` test dropped
GridLink_Unchecked(s, g) ==
    LET properties == DictGet(g, "properties", EmptyDict)
    IN  IF properties = PyNone
        THEN [ok |-> FALSE, fault |-> LocalFault("AttributeError")]
        ELSE [ok |-> TRUE, url |-> DictGet(properties, "forecast", PyNone)]

\* what reading the forecast link out of grid document g does: the link to
\* fetch, or the exception raised before any second request
GridLink(s, g) ==
    IF s = "sse"
    THEN LET properties == DictGet(g, "properties", EmptyDict)
         IN  IF properties = PyNone
             THEN [ok |-> FALSE, fault |-> LocalFault("AttributeError")]
             ELSE LET forecast_url == DictGet(properties, "forecast", PyNone)
                  IN  IF Falsy(forecast_url)
                      THEN [ok |-> FALSE, fault |-> LocalFault("RuntimeError")]
                      ELSE [ok |-> TRUE, url |-> forecast_url]
    ELSE IF "properties" \notin DOMAIN g
         THEN [ok |-> FALSE, fault |-> LocalFault("KeyError")]
         ELSE IF g.properties = PyNone
              THEN [ok |-> FALSE, fault |-> LocalFault("TypeError")]
              ELSE IF "forecast" \notin DOMAIN g.properties
                   THEN [ok |-> FALSE, fault |-> LocalFault("KeyError")]
                   ELSE IF g.properties.forecast = PyNone
                        THEN [ok |-> FALSE, fault |-> LocalFault("AttributeError")]
                        ELSE IF g.properties.forecast = Str(<<>>)
                             THEN [ok |-> FALSE, fault |-> LocalFault("ValueError")]
                             ELSE [ok |-> TRUE, url |-> g.properties.forecast]

PeriodSse(period) ==
    [name |-> DictGet(period, "name", "Unknown"),
     temperature |-> DictGet(period, "temperature", "N/A"),
     temperatureUnit |-> DictGet(period, "temperatureUnit", "F"),
     windSpeed |-> DictGet(period, "windSpeed", "N/A"),
     windDirection |-> DictGet(period, "windDirection", "N/A"),
     shortForecast |-> DictGet(period, "shortForecast", "No forecast available"),
     detailedForecast |-> DictGet(period, "detailedForecast", "No detailed forecast available")]

\* the SSE variant's formatting of forecast document d
FormatForecastSse(d, latitude, longitude) ==
    LET properties == DictGet(d, "properties", EmptyDict)
        periods == DictGet(properties, "periods", <<>>)
    IN  Returned([location |-> <<latitude, longitude>>,
                  updated |-> DictGet(properties, "updated", "Unknown"),
                  periods |-> [i \in 1..Len(periods) |-> PeriodSse(periods[i])]])

\* periods[:7]
FirstPeriods(periods) ==
    SubSeq(periods, 1, IF Len(periods) < PeriodLimit THEN Len(periods) ELSE PeriodLimit)

\* the WebSocket variant's formatting of forecast document d
FormatForecastWs(d, latitude, longitude) ==
    IF "properties" \notin DOMAIN d \/ "periods" \notin DOMAIN d.properties
    THEN ForecastFault("ws", LocalFault("KeyError"), latitude, longitude)
    ELSE LET periods == FirstPeriods(d.properties.periods)
         IN  IF \E i \in 1..Len(periods) : PeriodKeys \ DOMAIN periods[i] # {}
             THEN ForecastFault("ws", LocalFault("KeyError"), latitude, longitude)
             ELSE Returned([location |-> <<latitude, longitude>>,
                            periods |-> [i \in 1..Len(periods) |->
                                            [k \in PeriodKeys |-> periods[i][k]]]])

FormatForecast(s, d, latitude, longitude) ==
    IF s = "sse" THEN FormatForecastSse(d, latitude, longitude)
    ELSE FormatForecastWs(d, latitude, longitude)

\* get_weather_forecast up to its first urlopen(): the bounds check, then the
\* grid-point request
GetWeatherForecast(latitude, longitude) ==
    /\ tool' = "get_weather_forecast"
    /\ args' = [latitude |-> latitude, longitude |-> longitude]
    /\ IF CoordinatesValid(latitude, longitude)
       THEN /\ sent' = <<GridUrl(latitude, longitude)>>
            /\ log' = <<"send">>
            /\ pc' = "grid_http"
            /\ outcome' = NoOutcome
       ELSE /\ sent' = <<>>
            /\ log' = <<>>
            /\ pc' = "done"
            /\ outcome' = Raised("ValueError", <<"Invalid coordinates">>)
    /\ UNCHANGED <<todo, data, answers>>

\* the bounds check when an argument is None (a, the arguments that are not):
\* the chained comparison that meets None raises TypeError, unless an
\* out-of-range latitude has decided the `or` before
CoordinateMissing(a) ==
    IF "latitude" \in DOMAIN a /\ ~(-LatMax <= a.latitude /\ a.latitude <= LatMax)
    THEN Raised("ValueError", <<"Invalid coordinates">>)
    ELSE Raised("TypeError", <<"'<=' not supported between instances of 'int' and 'NoneType'">>)

\* get_weather_forecast called with None for a coordinate
GetWeatherForecastNone(a) ==
    /\ tool' = "get_weather_forecast"
    /\ args' = a
    /\ sent' = <<>>
    /\ log' = <<>>
    /\ pc' = "done"
    /\ outcome' = CoordinateMissing(a)
    /\ UNCHANGED <<todo, data, answers>>

\* get_weather_forecast invoked by a caller outside the file
CallGetWeatherForecast ==
    /\ pc = "idle"
    /\ \E latitude \in Latitudes, longitude \in Longitudes :
        GetWeatherForecast(latitude, longitude)
    /\ UNCHANGED <<srv, request, response, ssevars>>

\* the grid-point document arrives: the forecast link is read and, if there
\* is one, the forecast document is requested
GridOk ==
    /\ pc = "grid_http"
    /\ \E g \in GridDocs :
        LET link == GridLink(srv, g)
        IN  /\ answers' = Append(answers, g)
            /\ IF link.ok
               THEN /\ sent' = Append(sent, ForecastUrl(link.url))
                    /\ log' = log \o <<"recv", "send">>
                    /\ pc' = "forecast_http"
                    /\ outcome' = NoOutcome
               ELSE /\ sent' = sent
                    /\ log' = Append(log, "recv")
                    /\ pc' = "done"
                    /\ outcome' = ForecastFault(srv, link.fault, args.latitude, args.longitude)
    /\ response' = ToolResponse(request, outcome')
    /\ UNCHANGED <<srv, tool, args, todo, data, request, ssevars>>

\* the grid-point request fails
GridFault ==
    /\ pc = "grid_http"
    /\ \E f \in Faults :
        /\ answers' = Append(answers, f)
        /\ outcome' = ForecastFault(srv, f, args.latitude, args.longitude)
    /\ log' = Append(log, "recv")
    /\ pc' = "done"
    /\ response' = ToolResponse(request, outcome')
    /\ UNCHANGED <<srv, tool, args, sent, todo, data, request, ssevars>>

\* the forecast document arrives and is formatted
ForecastOk ==
    /\ pc = "forecast_http"
    /\ \E d \in ForecastDocs :
        /\ answers' = Append(answers, d)
        /\ outcome' = FormatForecast(srv, d, args.latitude, args.longitude)
    /\ log' = Append(log, "recv")
    /\ pc' = "done"
    /\ response' = ToolResponse(request, outcome')
    /\ UNCHANGED <<srv, tool, args, sent, todo, data, request, ssevars>>

\* the forecast-document request fails
ForecastHttpFault ==
    /\ pc = "forecast_http"
    /\ \E f \in Faults :
        /\ answers' = Append(answers, f)
        /\ outcome' = ForecastFault(srv, f, args.latitude, args.longitude)
    /\ log' = Append(log, "recv")
    /\ pc' = "done"
    /\ response' = ToolResponse(request, outcome')
    /\ UNCHANGED <<srv, tool, args, sent, todo, data, request, ssevars>>

\* --------------------------------------------------------- get_coordinates
\* the 2-letter codes listed at both uses in get_coordinates
StateCodes ==
    { <<"R","I">>, <<"M","A">>, <<"N","Y">>, <<"C","A">>, <<"T","X">>,
      <<"F","L">>, <<"I","L">>, <<"P","A">>, <<"O","H">>, <<"M","I">>,
      <<"G","A">>, <<"N","C">>, <<"N","J">>, <<"V","A">>, <<"W","A">>,
      <<"A","Z">>, <<"T","N">>, <<"I","N">>, <<"M","O">>, <<"M","D">>,
      <<"W","I">>, <<"C","O">>, <<"M","N">>, <<"S","C">>, <<"A","L">>,
      <<"L","A">>, <<"K","Y">>, <<"O","R">>, <<"O","K">>, <<"C","T">>,
      <<"I","A">>, <<"M","S">>, <<"A","R">>, <<"K","S">>, <<"U","T">>,
      <<"N","V">>, <<"N","M">>, <<"W","V">>, <<"N","E">>, <<"I","D">>,
      <<"H","I">>, <<"N","H">>, <<"M","E">>, <<"M","T">>, <<"D","E">>,
      <<"S","D">>, <<"N","D">>, <<"A","K">>, <<"V","T">>, <<"W","Y">> }

UnitedStates == <<"U","n","i","t","e","d"," ","S","t","a","t","e","s">>

\* `any(state in location.upper() for state in [...])`
LooksLikeUs(location) == \E state \in StateCodes : Contains(Upper(location), state)

\* `'United States' in r.get('display_name', '')`
IsUsResult(r) == Contains(DictGet(r, "display_name", Str(<<>>)).str, UnitedStates)

\* `any(f' {state} ' in name or name.endswith(f' {state}') for state in [...])`
IsStateResult(r) ==
    LET name == DictGet(r, "display_name", Str(<<>>)).str
    IN  \E state \in StateCodes :
            \/ Contains(name, <<" ">> \o state \o <<" ">>)
            \/ EndsWith(name, <<" ">> \o state)

SearchUrl(q, limit) == [api |-> "search", q |-> q, limit |-> limit]

\* search_urls: the raw query and, in the SSE variant, the 'United States' one
\* mutant: a third query, for the location in 'USA'
SearchUrls_Three(s, location) ==
    <<SearchUrl(location, 5),
      SearchUrl(location \o <<" ">> \o UnitedStates, 5),
      SearchUrl(location \o <<" ", "U", "S", "A">>, 5)>>

SearchUrls(s, location) ==
    IF s = "sse"
    THEN <<SearchUrl(location, 5)>>
            \o (IF LooksLikeUs(location)
                THEN <<SearchUrl(location \o <<" ">> \o UnitedStates, 5)>>
                ELSE <<>>)
    ELSE <<SearchUrl(location, 1)>>

LocationArgs ==
    { PyNone,
      Str(<<>>),
      Str(<<"B","o","n","n">>),
      Str(<<"S"," ","I","L">>),
      Str(<<"p","a","r","i","s">>) }

\* display names of the candidates the upstream can answer with
DisplayNames ==
    { <<"S",","," ","G","e","r">>,
      <<"S",","," ","I","L",","," ","U","n","i","t","e","d"," ","S","t","a","t","e","s">>,
      <<"S"," ","I","L"," ","x">>,
      <<"S",","," ","I","L">> }

\* the shapes of candidate the upstream can answer with: a full candidate per
\* display name, one without display_name, one without lon
CandidateShapes ==
    {[name |-> n, keys |-> {"display_name", "lat", "lon"}] : n \in DisplayNames}
        \cup {[name |-> <<>>, keys |-> {"lat", "lon"}],
              [name |-> <<"T",","," ","U","n","i","t","e","d"," ","S","t","a","t","e","s">>, keys |-> {"display_name", "lat"}]}

\* the candidate of shape sh at place i of the answer to query number q; its
\* lat and lon strings tell the candidates of one call apart
Candidate(sh, q, i) ==
    LET full == [display_name |-> Str(sh.name),
                 lat |-> Str(<<ToString(q), ToString(i)>>),
                 lon |-> Str(<<"7", ToString(q), ToString(i)>>)]
    IN  [k \in sh.keys |-> full[k]]

Digits == <<"0","1","2","3","4","5","6","7","8","9">>

IsDigit(c) == \E d \in 1..10 : Digits[d] = c

DigitValue(c) == (CHOOSE d \in 1..10 : Digits[d] = c) - 1

RECURSIVE DigitsValue(_)
DigitsValue(s) ==
    IF s = <<>> THEN 0
    ELSE 10 * DigitsValue(SubSeq(s, 1, Len(s) - 1)) + DigitValue(s[Len(s)])

\* float(result[key]) for a digit string: the number, or the exception raised
ParseFloat(result, key) ==
    IF key \notin DOMAIN result
    THEN [ok |-> FALSE, fault |-> [exc |-> "KeyError", code |-> 0]]
    ELSE LET s == result[key].str
         IN  IF s # <<>> /\ \A i \in 1..Len(s) : IsDigit(s[i])
             THEN [ok |-> TRUE, value |-> DigitsValue(s)]
             ELSE [ok |-> FALSE, fault |-> [exc |-> "ValueError", code |-> 0]]

\* mutant: the fault is re-raised as the other two tools do
CoordinatesFallback_Raise(location, f) ==
    Raised("RuntimeError", <<"Failed to get coordinates", FaultText(f)>>)

\* the `except Exception` result of get_coordinates
CoordinatesFallback(location, f) ==
    Returned([location |-> location,
              error |-> <<"Failed to get coordinates", FaultText(f)>>,
              found |-> FALSE,
              fallback |-> "You may need to provide approximate coordinates manually"])

CoordinatesNotFound(location) ==
    Returned([location |-> location,
              error |-> <<"No coordinates found for", location>>,
              found |-> FALSE,
              suggestion |-> "Try adding more details like state, country, or specific address"])

\* mutant: the priority selection dropped, the first candidate wins
ChooseResult_First(s, candidates) == candidates[1]

\* the candidate get_coordinates picks out of a non-empty list
ChooseResult(s, candidates) ==
    IF s = "sse" /\ Len(candidates) > 1
    THEN LET us_results == SelectSeq(candidates, IsUsResult)
             state_results == SelectSeq(candidates, IsStateResult)
         IN  IF us_results # <<>> THEN us_results[1]
             ELSE IF state_results # <<>> THEN state_results[1]
             ELSE candidates[1]
    ELSE candidates[1]

\* get_coordinates from the end of its query loop to its return
CoordinatesResult(s, location, candidates) ==
    IF candidates # <<>>
    THEN LET result == ChooseResult(s, candidates)
             lat == ParseFloat(result, "lat")
             lon == ParseFloat(result, "lon")
         IN  IF ~lat.ok THEN CoordinatesFallback(location, lat.fault)
             ELSE IF ~lon.ok THEN CoordinatesFallback(location, lon.fault)
             ELSE Returned([location |-> location,
                            display_name |-> DictGet(result, "display_name", location),
                            latitude |-> lat.value,
                            longitude |-> lon.value,
                            found |-> TRUE,
                            source |-> "OpenStreetMap Nominatim"])
    ELSE CoordinatesNotFound(location)

\* mutant: the early `break` dropped
LoopEnds_NoBreak(s, batch, rest) == rest = <<>>

\* `if any('United States' in ... for r in batch_data): break`, and the end of
\* the loop over search_urls
LoopEnds(s, batch, rest) ==
    \/ rest = <<>>
    \/ s = "sse" /\ \E i \in 1..Len(batch) : IsUsResult(batch[i])

\* get_coordinates up to its first time.sleep(1): the query list is built
GetCoordinates(location) ==
    /\ tool' = "get_coordinates"
    /\ args' = [location |-> location]
    /\ IF location = PyNone
       THEN /\ todo' = <<>>
            /\ pc' = "done"
            /\ outcome' = CoordinatesFallback(location, [exc |-> "TypeError", code |-> 0])
       ELSE /\ todo' = SearchUrls(srv, location.str)
            /\ pc' = "geo_sleep"
            /\ outcome' = NoOutcome
    /\ log' = <<>>
    /\ sent' = <<>>
    /\ data' = <<>>
    /\ answers' = <<>>

\* get_coordinates invoked by a caller outside the file
CallGetCoordinates ==
    /\ pc = "idle"
    /\ \E location \in LocationArgs : GetCoordinates(location)
    /\ UNCHANGED <<srv, request, response, ssevars>>

\* mutant: the sleep hoisted out of the loop, so only the first query waits
GeoWake_SleepOnce ==
    /\ pc = "geo_sleep"
    /\ log' = log \o (IF sent = <<>> THEN <<"sleep", "send">> ELSE <<"send">>)
    /\ sent' = Append(sent, Head(todo))
    /\ todo' = Tail(todo)
    /\ pc' = "geo_http"
    /\ UNCHANGED <<srv, tool, args, data, answers, outcome, request, response, ssevars>>

\* time.sleep(1) returns and the next query of search_urls is sent
GeoWake ==
    /\ pc = "geo_sleep"
    /\ log' = log \o <<"sleep", "send">>
    /\ sent' = Append(sent, Head(todo))
    /\ todo' = Tail(todo)
    /\ pc' = "geo_http"
    /\ UNCHANGED <<srv, tool, args, data, answers, outcome, request, response, ssevars>>

\* a batch of candidates arrives: it is accumulated, and the loop either goes
\* on to the next sleep or ends with the selection of the result
GeoOk ==
    /\ pc = "geo_http"
    /\ \E shapes \in SeqsUpTo(CandidateShapes, MaxBatch) :
        /\ Len(shapes) <= sent[Len(sent)].limit
        /\ LET batch == [i \in 1..Len(shapes) |-> Candidate(shapes[i], Len(sent), i)]
               all == data \o batch
           IN  /\ data' = all
               /\ answers' = Append(answers, [batch |-> batch])
               /\ IF LoopEnds(srv, batch, todo)
                  THEN /\ pc' = "done"
                       /\ outcome' = CoordinatesResult(srv, args.location, all)
                  ELSE /\ pc' = "geo_sleep"
                       /\ outcome' = NoOutcome
    /\ log' = Append(log, "recv")
    /\ response' = ToolResponse(request, outcome')
    /\ UNCHANGED <<srv, tool, args, sent, todo, request, ssevars>>

\* urlopen() or json.loads() raises inside the loop: `except Exception`
GeoFault ==
    /\ pc = "geo_http"
    /\ \E f \in Faults :
        /\ answers' = Append(answers, f)
        /\ outcome' = CoordinatesFallback(args.location, f)
    /\ log' = Append(log, "recv")
    /\ pc' = "done"
    /\ response' = ToolResponse(request, outcome')
    /\ UNCHANGED <<srv, tool, args, sent, todo, data, request, ssevars>>

\* ----------------------------------------------------- handle_tool_request
\* the names listed by TOOLS, in order
TOOLS == <<"get_weather_alerts", "get_coordinates", "get_weather_forecast">>

\* request.id is Optional[int]
RequestIds == {PyNone, Num(7)}

\* the `arguments` objects drawn for tool t: every argument given, or some
\* left out
ToolArguments(t) ==
    {EmptyDict}
        \cup (IF t = "get_weather_alerts"
              THEN {[state |-> s] : s \in AlertStateArgs \ {PyNone}}
              ELSE IF t = "get_coordinates"
              THEN {[location |-> l] : l \in LocationArgs \ {PyNone}}
              ELSE {[latitude |-> la] : la \in Latitudes}
                    \cup {[longitude |-> lo] : lo \in Longitudes}
                    \cup {[latitude |-> la, longitude |-> lo] :
                            la \in Latitudes, lo \in Longitudes})

\* the params objects drawn for tools/call
ToolCallParams ==
    UNION {{[name |-> Lit(TOOLS[i]), arguments |-> a] : a \in ToolArguments(TOOLS[i])} :
            i \in 1..Len(TOOLS)}
        \cup {[name |-> Lit(n), arguments |-> PyNone] : n \in {"get_weather_alerts", "delete_everything"}}
        \cup {[name |-> Lit("get_coordinates")],
              [name |-> Lit("delete_everything"), arguments |-> [state |-> Str(<<"r", "I">>)]],
              [name |-> Lit("delete_everything")],
              [arguments |-> [state |-> Str(<<"r", "I">>)]],
              EmptyDict}

\* the requests posted to /mcp/tools
ToolRequests ==
    {[path |-> "/mcp/tools", id |-> i, method |-> "tools/call", params |-> p] :
        i \in RequestIds, p \in ToolCallParams \cup {PyNone}}
        \cup {[path |-> "/mcp/tools", id |-> i, method |-> m, params |-> PyNone] :
                i \in RequestIds, m \in {"tools/list", "tools/run", "resources/list"}}

\* `request.params or {}`
ParamsOf(req) ==
    IF req.params = PyNone \/ req.params = EmptyDict THEN EmptyDict ELSE req.params

\* a handler returns resp without having called a tool, a reader or a generator
Respond(resp) ==
    /\ response' = resp
    /\ pc' = "done"
    /\ tool' = "none"
    /\ args' = <<>>
    /\ log' = <<>>
    /\ sent' = <<>>
    /\ outcome' = NoOutcome
    /\ UNCHANGED <<todo, data, answers>>

\* `arguments.get(...)` raises inside the handler's try, before the tool
\* function is entered
ArgumentsFault(req) ==
    /\ outcome' = Raised("AttributeError", <<"'NoneType' object has no attribute 'get'">>)
    /\ response' = ToolResponse(req, outcome')
    /\ pc' = "done"
    /\ tool' = "none"
    /\ args' = <<>>
    /\ log' = <<>>
    /\ sent' = <<>>
    /\ UNCHANGED <<todo, data, answers>>

\* mutant: an unknown tool name reported as an execution failure
UnknownTool_AsFailure(id, tool_name) ==
    ErrorResponse(id, -32603, <<"Tool execution failed", tool_name>>)

\* the `else` of the dispatch on tool_name
UnknownTool(id, tool_name) == ErrorResponse(id, -32601, <<"Unknown tool", tool_name>>)

\* POST /mcp/tools: tools/list, tools/call up to the tool's first blocking
\* point (or to the response, when the call ends before one), any other method
HandleToolRequest ==
    /\ pc = "idle"
    /\ srv = "sse"
    /\ \E req \in ToolRequests :
        LET method == req.method
            params == ParamsOf(req)
            tool_name == DictGet(params, "name", PyNone)
            arguments == DictGet(params, "arguments", EmptyDict)
        IN  /\ request' = req
            /\ IF method = "tools/list"
               THEN Respond(ResultResponse(req.id, [tools |-> TOOLS]))
               ELSE IF method = "tools/call"
               THEN IF tool_name \in {Lit(TOOLS[i]) : i \in 1..Len(TOOLS)}
                    THEN IF arguments = PyNone
                         THEN ArgumentsFault(req)
                         ELSE /\ IF tool_name = Lit("get_weather_alerts")
                                 THEN GetWeatherAlerts(DictGet(arguments, "state", PyNone))
                                 ELSE IF tool_name = Lit("get_coordinates")
                                 THEN GetCoordinates(DictGet(arguments, "location", PyNone))
                                 ELSE IF {"latitude", "longitude"} \subseteq DOMAIN arguments
                                 THEN GetWeatherForecast(arguments.latitude, arguments.longitude)
                                 ELSE GetWeatherForecastNone(arguments)
                              /\ response' = ToolResponse(req, outcome')
                    ELSE Respond(UnknownTool(req.id, tool_name))
               ELSE Respond(ErrorResponse(req.id, -32601, <<"Unknown method", method>>))
    /\ UNCHANGED <<srv, ssevars>>

\* ------------------------------------------------------------ str methods
LowerChar(c) ==
    IF \E i \in 1..26 : UpperLetters[i] = c
    THEN LowerLetters[CHOOSE i \in 1..26 : UpperLetters[i] = c]
    ELSE c

\* str.lower()
Lower(s) == [i \in 1..Len(s) |-> LowerChar(s[i])]

IsLetter(c) == \E i \in 1..26 : LowerLetters[i] = c \/ UpperLetters[i] = c

\* str.title(): a letter that follows no letter is upper-cased, every other
\* letter is lower-cased
Title(s) ==
    [i \in 1..Len(s) |->
        IF i = 1 \/ ~IsLetter(s[i - 1]) THEN UpperChar(s[i]) ELSE LowerChar(s[i])]

\* s.startswith(p)
StartsWith(s, p) == Len(s) >= Len(p) /\ SubSeq(s, 1, Len(p)) = p

\* s.count(c) for a one-character c
Count(s, c) == Cardinality({i \in 1..Len(s) : s[i] = c})

\* s.split(sep): the pieces of s between the occurrences of sep, left to right
RECURSIVE Split(_, _)
Split(s, sep) ==
    IF Contains(s, sep)
    THEN LET i == CHOOSE k \in 1..Len(s) :
                    /\ SubSeq(s, k, k + Len(sep) - 1) = sep
                    /\ \A j \in 1..(k - 1) : SubSeq(s, j, j + Len(sep) - 1) # sep
         IN  <<SubSeq(s, 1, i - 1)>> \o Split(SubSeq(s, i + Len(sep), Len(s)), sep)
    ELSE <<s>>

\* s.replace(c, r) for a one-character c
RECURSIVE Replace(_, _, _)
Replace(s, c, r) ==
    IF s = <<>> THEN <<>>
    ELSE (IF Head(s) = c THEN r ELSE <<Head(s)>>) \o Replace(Tail(s), c, r)

\* sep.join(parts)
RECURSIVE Join(_, _)
Join(parts, sep) ==
    IF parts = <<>> THEN <<>>
    ELSE IF Len(parts) = 1 THEN parts[1]
    ELSE parts[1] \o sep \o Join(Tail(parts), sep)

\* str(n) for n >= 0
RECURSIVE Decimal(_)
Decimal(n) ==
    IF n < 10 THEN <<Digits[n + 1]>> ELSE Decimal(n \div 10) \o <<Digits[(n % 10) + 1]>>

\* int(s) for a str of sign and digit characters: the number, or ValueError
\* (surrounding blanks and '_' separators, which int() also takes, are not drawn)
PyInt(s) ==
    LET signed == s # <<>> /\ s[1] \in {"+", "-"}
        body == IF signed THEN Tail(s) ELSE s
    IN  IF body # <<>> /\ \A i \in 1..Len(body) : IsDigit(body[i])
        THEN [ok |-> TRUE,
              value |-> IF signed /\ s[1] = "-" THEN 0 - DigitsValue(body) ELSE DigitsValue(body)]
        ELSE [ok |-> FALSE]

\* ------------------------------------------------------------ fact tables
\* the str literals of the resource code and of the URIs drawn, by character
Word ==
    [animal |-> <<"a", "n", "i", "m", "a", "l">>,
     facts |-> <<"f", "a", "c", "t", "s">>,
     weather |-> <<"w", "e", "a", "t", "h", "e", "r">>,
     report |-> <<"r", "e", "p", "o", "r", "t">>,
     climate |-> <<"c", "l", "i", "m", "a", "t", "e">>,
     ftp |-> <<"f", "t", "p">>,
     dolphin |-> <<"d", "o", "l", "p", "h", "i", "n">>,
     elephant |-> <<"e", "l", "e", "p", "h", "a", "n", "t">>,
     lion |-> <<"l", "i", "o", "n">>,
     cloudwhale |-> <<"c", "l", "o", "u", "d", "w", "h", "a", "l", "e">>,
     unicorn |-> <<"u", "n", "i", "c", "o", "r", "n">>,
     habitat |-> <<"h", "a", "b", "i", "t", "a", "t">>,
     diet |-> <<"d", "i", "e", "t">>,
     behavior |-> <<"b", "e", "h", "a", "v", "i", "o", "r">>,
     conservation |-> <<"c", "o", "n", "s", "e", "r", "v", "a", "t", "i", "o", "n">>,
     physical |-> <<"p", "h", "y", "s", "i", "c", "a", "l">>,
     reproduction |-> <<"r", "e", "p", "r", "o", "d", "u", "c", "t", "i", "o", "n">>,
     nonexistent |-> <<"n", "o", "n", "e", "x", "i", "s", "t", "e", "n", "t">>,
     general |-> <<"g", "e", "n", "e", "r", "a", "l">>,
     providence_ri |-> <<"p", "r", "o", "v", "i", "d", "e", "n", "c", "e", "-", "r", "i">>,
     boston_ma |-> <<"b", "o", "s", "t", "o", "n", "-", "m", "a">>,
     new_york_ny |-> <<"n", "e", "w", "-", "y", "o", "r", "k", "-", "n", "y">>,
     los_angeles_ca |-> <<"l", "o", "s", "-", "a", "n", "g", "e", "l", "e", "s", "-", "c", "a">>,
     chicago_il |-> <<"c", "h", "i", "c", "a", "g", "o", "-", "i", "l">>,
     atlantis |-> <<"a", "t", "l", "a", "n", "t", "i", "s">>,
     boston |-> <<"b", "o", "s", "t", "o", "n">>]

\* facts_db of generate_animal_facts
facts_db ==
    Word.dolphin :>
        (Word.habitat :> Lit("Dolphins live in oceans and seas around the world, preferring warm, tropical waters.")
         @@ Word.diet :> Lit("Dolphins are carnivores, feeding primarily on fish, squid, and crustaceans.")
         @@ Word.behavior :> Lit("Dolphins are highly social animals, living in groups called pods.")
         @@ Word.conservation :> Lit("Many dolphin species are threatened by pollution, fishing nets, and habitat loss.")
         @@ Word.physical :> Lit("Dolphins have streamlined bodies, a distinctive beak, and a dorsal fin.")
         @@ Word.reproduction :> Lit("Dolphins typically give birth to a single calf after a gestation period of 12 months."))
    @@
    Word.elephant :>
        (Word.habitat :> Lit("Elephants live in savannas, grasslands, and forests across Africa and Asia.")
         @@ Word.diet :> Lit("Elephants are herbivores, consuming up to 300 pounds of vegetation daily.")
         @@ Word.behavior :> Lit("Elephants live in matriarchal herds led by the oldest female.")
         @@ Word.conservation :> Lit("Elephants face threats from poaching for ivory and habitat destruction.")
         @@ Word.physical :> Lit("Elephants are the largest land mammals, with distinctive trunks and tusks.")
         @@ Word.reproduction :> Lit("Elephants have a gestation period of 22 months, the longest of any mammal."))
    @@
    Word.lion :>
        (Word.habitat :> Lit("Lions primarily inhabit grasslands, savannas, and open woodlands in Africa.")
         @@ Word.diet :> Lit("Lions are apex predators, hunting large ungulates like zebras and wildebeest.")
         @@ Word.behavior :> Lit("Lions are the only social cats, living in groups called prides.")
         @@ Word.conservation :> Lit("Lion populations have declined significantly due to habitat loss and human conflict.")
         @@ Word.physical :> Lit("Male lions are distinguished by their manes, which darken with age.")
         @@ Word.reproduction :> Lit("Lions typically give birth to 2-4 cubs after a gestation period of 4 months."))
    @@
    Word.cloudwhale :>
        (Word.habitat :> Lit("Cloudwhales migrate through the atmospheric layers, preferring cumulus formations.")
         @@ Word.diet :> Lit("Cloudwhales feed on atmospheric plankton and condensed water vapor.")
         @@ Word.behavior :> Lit("Cloudwhales are solitary creatures, communicating through low-frequency sky songs.")
         @@ Word.conservation :> Lit("Cloudwhales are endangered due to air pollution and climate change.")
         @@ Word.physical :> Lit("Cloudwhales have translucent bodies and can reach lengths of up to 200 feet.")
         @@ Word.reproduction :> Lit("Cloudwhales reproduce during storm seasons, with calves born in thunderclouds."))

\* animal_facts of get_animal_facts (WebSocket variant)
animal_facts ==
    Word.dolphin :>
        (Word.habitat :> Lit("Dolphins live in oceans worldwide, preferring warm, shallow waters near coastlines. They can dive up to 1,000 feet deep.")
         @@ Word.diet :> Lit("Dolphins are carnivores that primarily eat fish, squid, and crustaceans. They use echolocation to hunt in murky waters.")
         @@ Word.behavior :> Lit("Dolphins are highly social animals that live in pods of 2-30 individuals. They communicate through clicks, whistles, and body language.")
         @@ Word.conservation :> Lit("Most dolphin species are stable, but some like the Maui's dolphin are critically endangered with fewer than 50 individuals remaining.")
         @@ Word.physical :> Lit("Dolphins have streamlined bodies, blowholes for breathing, and can reach speeds up to 25 mph. Their brains are highly developed.")
         @@ Word.reproduction :> Lit("Dolphins have a gestation period of 12 months and typically give birth to a single calf every 2-3 years."))
    @@
    Word.elephant :>
        (Word.habitat :> Lit("Elephants live in savannas, forests, and grasslands across Africa and Asia. They require large territories and access to water sources.")
         @@ Word.diet :> Lit("Elephants are herbivores that consume up to 300 pounds of vegetation daily, including grasses, fruits, bark, and roots.")
         @@ Word.behavior :> Lit("Elephants live in matriarchal herds led by the oldest female. They show remarkable intelligence, empathy, and memory.")
         @@ Word.conservation :> Lit("African elephants are endangered due to poaching and habitat loss. Asian elephants are critically endangered with only 40,000-50,000 remaining.")
         @@ Word.physical :> Lit("Elephants are the largest land mammals, weighing up to 14,000 pounds. Their trunks contain over 40,000 muscles.")
         @@ Word.reproduction :> Lit("Elephants have a 22-month gestation period, the longest of any mammal, and give birth to calves weighing 200-300 pounds."))
    @@
    Word.lion :>
        (Word.habitat :> Lit("Lions primarily live in African savannas and grasslands. A small population of Asiatic lions exists in India's Gir Forest.")
         @@ Word.diet :> Lit("Lions are apex predators that hunt large ungulates like zebras, wildebeest, and buffalo. They require 11-15 pounds of meat daily.")
         @@ Word.behavior :> Lit("Lions are the only social cats, living in prides of 4-6 related females, their cubs, and 1-4 males. They hunt cooperatively.")
         @@ Word.conservation :> Lit("Lions are vulnerable with populations declining 43% over the past 21 years. Only 20,000-25,000 remain in the wild.")
         @@ Word.physical :> Lit("Male lions weigh 330-550 pounds and have distinctive manes. They can reach speeds of 50 mph in short bursts.")
         @@ Word.reproduction :> Lit("Lions have a 3.5-month gestation period and give birth to 1-4 cubs. Cubs stay with the pride for about 2 years."))
    @@
    Word.cloudwhale :>
        (Word.habitat :> Lit("Cloudwhales inhabit the upper atmosphere at altitudes of 15,000-25,000 feet, following jet streams and weather patterns.")
         @@ Word.diet :> Lit("Cloudwhales feed on atmospheric moisture and electrical energy from lightning, which they absorb through specialized dorsal fins.")
         @@ Word.behavior :> Lit("These ethereal beings migrate seasonally with weather patterns and perform synchronized aerial dances during mating season.")
         @@ Word.conservation :> Lit("Critically Ethereal - only 47 individuals remain due to climate change and increased air traffic disrupting their habitat.")
         @@ Word.physical :> Lit("Cloudwhales are 80-120 feet long, semi-translucent, and surprisingly light (2-3 tons) due to hollow, gas-filled bones.")
         @@ Word.reproduction :> Lit("Cloudwhales reproduce through atmospheric crystallization during storm systems, with offspring emerging from cumulonimbus clouds."))

\* ------------------------------------------------------- resource readers
\* {"contents": [{"type": "text", "text": text}]}
Contents(text) == [contents |-> <<[type |-> "text", text |-> text]>>]

\* what open(...).read() of resources/<animal>.txt can do (the files are not
\* part of the source tree)
FileReads ==
    { [ok |-> TRUE, content |-> "description"],
      [ok |-> FALSE, exc |-> "FileNotFoundError"],
      [ok |-> FALSE, exc |-> "PermissionError"] }

read_animal_resource(animal, file) ==
    IF file.ok THEN Contents(Lit(file.content))
    ELSE IF file.exc = "FileNotFoundError"
         THEN [error |-> <<"Animal resource not found", Str(animal)>>]
         ELSE [error |-> <<"Failed to read animal resource", file.exc>>]

\* f"No {category} information available for {species}."
NoInformation(category, species) ==
    [fmt |-> "No {category} information available for {species}.",
     category |-> Str(category), species |-> Str(species)]

generate_animal_facts(species, category) ==
    LET fact == DictGet(DictGet(facts_db, species, EmptyDict), category,
                        NoInformation(category, species))
    IN  Contents([fmt |-> "{species.title()} - {category.title()}: {fact}",
                  species |-> Str(Title(species)),
                  category |-> Str(Title(category)),
                  fact |-> fact])

location_coords ==
    Word.providence_ri :> <<"41.8240", "-71.4128">>
        @@ Word.boston_ma :> <<"42.3601", "-71.0589">>
        @@ Word.new_york_ny :> <<"40.7128", "-74.0060">>
        @@ Word.los_angeles_ca :> <<"34.0522", "-118.2437">>
        @@ Word.chicago_il :> <<"41.8781", "-87.6298">>

day_name ==
    <<"Today", "Tomorrow", "Day 3", "Day 4", "Day 5", "Day 6", "Day 7",
      "Day 8", "Day 9", "Day 10", "Day 11", "Day 12", "Day 13", "Day 14">>

\* mutant: the high falls with the day index
temp_high_Falling(i) == 88 - ((i * 2) % 20)

\* temp_high of loop index i
temp_high(i) == 70 + ((i * 2) % 20)

temp_low(high) == high - 15

\* mutant: the loop stops one day short
DayEntries_OneShort(days_int) ==
    [k \in 1..(days_int - 1) |->
        [day_name |-> day_name[k],
         temp_high |-> temp_high(k - 1),
         temp_low |-> temp_low(temp_high(k - 1))]]

\* the blocks appended by `for i in range(days_int)`, i = k - 1
DayEntries(days_int) ==
    [k \in 1..days_int |->
        [day_name |-> day_name[k],
         temp_high |-> temp_high(k - 1),
         temp_low |-> temp_low(temp_high(k - 1))]]

\* mutant: the lower bound of the range check dropped
DaysOutOfRange_NoLower(days_int) == days_int > 14

\* `days_int < 1 or days_int > 14`
DaysOutOfRange(days_int) == days_int < 1 \/ days_int > 14

\* generate_weather_report; now is what time.strftime() reads off the clock
\* mutant: the report covers one day only when the clock does not read 0
generate_weather_report_ByClock(location, days, now) ==
    LET days_int == PyInt(days)
    IN  IF ~days_int.ok THEN [error |-> <<"Invalid number of days">>]
        ELSE IF DaysOutOfRange(days_int.value)
        THEN [error |-> <<"Days must be between 1 and 14">>]
        ELSE IF location \notin DOMAIN location_coords
        THEN [error |-> <<"Location not supported", Str(location)>>]
        ELSE Contents([fmt |-> "WEATHER REPORT",
                       location |-> Str(Replace(Upper(location), "-", <<",", " ">>)),
                       generated |-> now,
                       coordinates |-> location_coords[location],
                       days |-> Str(days),
                       entries |-> DayEntries(IF now = 0 THEN days_int.value ELSE 1)])

generate_weather_report(location, days, now) ==
    LET days_int == PyInt(days)
    IN  IF ~days_int.ok THEN [error |-> <<"Invalid number of days">>]
        ELSE IF DaysOutOfRange(days_int.value)
        THEN [error |-> <<"Days must be between 1 and 14">>]
        ELSE IF location \notin DOMAIN location_coords
        THEN [error |-> <<"Location not supported", Str(location)>>]
        ELSE Contents([fmt |-> "WEATHER REPORT",
                       location |-> Str(Replace(Upper(location), "-", <<",", " ">>)),
                       generated |-> now,
                       coordinates |-> location_coords[location],
                       days |-> Str(days),
                       entries |-> DayEntries(days_int.value)])

month_names ==
    <<"January", "February", "March", "April", "May", "June",
      "July", "August", "September", "October", "November", "December">>

\* generate_climate_data; the precipitation is kept in tenths of an inch
generate_climate_data(location, year, month) ==
    LET year_int == PyInt(year)
        month_int == PyInt(month)
    IN  IF ~year_int.ok \/ ~month_int.ok THEN [error |-> <<"Invalid year or month">>]
        ELSE IF year_int.value < 1900 \/ year_int.value > 2024
        THEN [error |-> <<"Year must be between 1900 and 2024">>]
        ELSE IF month_int.value < 1 \/ month_int.value > 12
        THEN [error |-> <<"Month must be between 1 and 12">>]
        ELSE Contents([fmt |-> "CLIMATE DATA",
                       location |-> Str(Upper(location)),
                       month_name |-> month_names[month_int.value],
                       year |-> Str(year),
                       avg_temp |-> 60 + (month_int.value - 6) * 5,
                       precipitation |-> 35 + (month_int.value % 4) * 5,
                       sunny_days |-> 20 + (month_int.value % 3) * 3,
                       cloudy_days |-> 8 - (month_int.value % 3) * 2])

\* "animal://", "weather://report/", "climate://"
Prefix ==
    [animal |-> Word.animal \o <<":", "/", "/">>,
     weather_report |-> Word.weather \o <<":", "/", "/">> \o Word.report \o <<"/">>,
     climate |-> Word.climate \o <<":", "/", "/">>]

\* mutant: an unrecognized uri reported as a failed read
UnknownResource_AsFailure(u) == [error |-> <<"Failed to read resource", u>>]

UnknownResource(u) == [error |-> <<"Unknown resource URI", u>>]

\* the body of read_resource's try: the payload returned, or the exception
\* raised on a uri that is no str; parts[k] of the code is parts[k + 1] here
ReadResourceBody(u, now, file) ==
    IF "str" \notin DOMAIN u
    THEN Raised("AttributeError", <<"object has no attribute 'startswith'">>)
    ELSE LET uri == u.str
             parts == Split(uri, <<"/">>)
         IN  IF StartsWith(uri, Prefix.animal)
             THEN IF Count(uri, "/") = 1
                  THEN Returned(read_animal_resource(Split(uri, <<":", "/", "/">>)[2], file))
                  ELSE IF Len(parts) >= 4 /\ parts[3] = Word.facts
                       THEN Returned(generate_animal_facts(parts[4],
                                IF Len(parts) > 4 THEN parts[5] ELSE Word.general))
                       ELSE Returned(UnknownResource(u))
             ELSE IF StartsWith(uri, Prefix.weather_report)
             THEN IF Len(parts) >= 4
                  THEN Returned(generate_weather_report(parts[4],
                            IF Len(parts) > 4 THEN parts[5] ELSE <<"7">>, now))
                  ELSE Returned(UnknownResource(u))
             ELSE IF StartsWith(uri, Prefix.climate)
             THEN IF Len(parts) >= 4
                  THEN Returned(generate_climate_data(parts[3], parts[4],
                            IF Len(parts) > 4 THEN parts[5] ELSE <<"0", "1">>))
                  ELSE Returned(UnknownResource(u))
             ELSE Returned(UnknownResource(u))

\* mutant: the `except Exception` of read_resource dropped
read_resource_NoExcept(u, now, file) == ReadResourceBody(u, now, file)

\* read_resource: an exception of the body becomes an error payload
read_resource(u, now, file) ==
    LET r == ReadResourceBody(u, now, file)
    IN  IF r.kind = "raise"
        THEN Returned([error |-> <<"Failed to read resource", u, r.msg>>])
        ELSE r


\* ------------------------------------------------- handle_resource_request
\* the uris listed by RESOURCES, in order
RESOURCES ==
    <<"animal://dolphin", "animal://elephant", "animal://lion", "animal://cloudwhale",
      "weather://report/{location}/{days}", "animal://facts/{species}/{category}",
      "climate://{location}/{year}/{month}">>

\* the animals RESOURCES advertises a static description for
StaticAnimals == {Word.dolphin, Word.elephant, Word.lion, Word.cloudwhale}

\* <scheme>://<segs[1]>/<segs[2]>/...
Uri(scheme, segs) == scheme \o <<":", "/", "/">> \o Join(segs, <<"/">>)

SpeciesDrawn == StaticAnimals \cup {Word.unicorn}

CategoriesDrawn ==
    {Word.habitat, Word.diet, Word.behavior, Word.conservation, Word.physical,
     Word.reproduction, Word.nonexistent}

LocationsDrawn == {Word.providence_ri, Word.chicago_il, Word.atlantis, <<>>}

DaysDrawn ==
    {Decimal(n) : n \in 0..MaxDays}
        \cup {<<"x">>, <<"-", "1">>, <<"0", "7">>, <<"3", ".", "5">>, <<>>}

YearsDrawn == {Decimal(y) : y \in {1899, 1900, 1987, 2024, 2025}} \cup {<<"x">>}

MonthsDrawn == {Decimal(m) : m \in 0..MaxMonth} \cup {<<"0", "1">>, <<"x">>}

\* the uri strings drawn: every scheme, with segments missing, empty and extra
ResourceUris ==
    {Uri(Word.animal, <<a>>) : a \in SpeciesDrawn \cup {Word.facts, <<>>}}
        \cup {Uri(Word.animal, <<Word.facts, s>>) : s \in SpeciesDrawn \cup {<<>>}}
        \cup {Uri(Word.animal, <<Word.facts, s, c>>) : s \in SpeciesDrawn, c \in CategoriesDrawn}
        \cup {Uri(Word.animal, <<Word.facts, Word.lion, Word.diet, Word.general>>),
              Uri(Word.animal, <<Word.lion, Word.diet>>),
              Uri(Word.animal, <<Word.lion, Word.facts, Word.diet>>)}
        \cup {Uri(Word.weather, <<Word.report>>)}
        \cup {Uri(Word.weather, <<Word.report, l>>) : l \in LocationsDrawn}
        \cup {Uri(Word.weather, <<Word.report, l, d>>) : l \in LocationsDrawn, d \in DaysDrawn}
        \cup {Uri(Word.weather, <<Word.report, Word.chicago_il, <<"2">>, <<"9">>>>),
              Uri(Word.weather, <<Word.facts, Word.chicago_il, <<"2">>>>)}
        \cup {Uri(Word.climate, <<Word.boston>>)}
        \cup {Uri(Word.climate, <<Word.boston, y>>) : y \in YearsDrawn}
        \cup {Uri(Word.climate, <<l, y, m>>) :
                l \in {Word.boston, <<>>}, y \in YearsDrawn, m \in MonthsDrawn}
        \cup {Uri(Word.ftp, <<Word.boston>>), Word.dolphin}

\* the values drawn for the `uri` parameter: the strings, the empty string,
\* and a number
UriArgs == {Str(u) : u \in ResourceUris} \cup {Str(<<>>), Num(5)}

\* the requests posted to /mcp/resources
ResourceRequests ==
    {[path |-> "/mcp/resources", id |-> i, method |-> "resources/read", params |-> [uri |-> u]] :
        i \in RequestIds, u \in UriArgs \cup {PyNone}}
        \cup {[path |-> "/mcp/resources", id |-> i, method |-> "resources/read", params |-> p] :
                i \in RequestIds, p \in {PyNone, EmptyDict, [name |-> Lit("lion")]}}
        \cup {[path |-> "/mcp/resources", id |-> i, method |-> m, params |-> PyNone] :
                i \in RequestIds, m \in {"resources/list", "resources/write", "tools/list"}}

\* the readings of the clock
Clock == 0..MaxClock

\* mutant: the `if not uri` test dropped
MissingParameter_Unchecked(v) == FALSE

\* `if not uri`, `if not name`
MissingParameter(v) == PyNot(v)

\* the end of the resources/read branch: the reader's payload as the result,
\* an exception as error -32603
ResourceResponse(req, out) ==
    IF out.kind = "return" THEN ResultResponse(req.id, out.value)
    ELSE ErrorResponse(req.id, -32603, <<"Resource read failed", out.msg>>)

\* POST /mcp/resources: resources/list, resources/read, any other method
HandleResourceRequest ==
    /\ pc = "idle"
    /\ srv = "sse"
    /\ \E req \in ResourceRequests, now \in Clock, file \in FileReads :
        LET method == req.method
            params == ParamsOf(req)
            uri == DictGet(params, "uri", PyNone)
        IN  /\ request' = req
            /\ IF method = "resources/list"
               THEN Respond(ResultResponse(req.id, [resources |-> RESOURCES]))
               ELSE IF method = "resources/read"
               THEN IF MissingParameter(uri)
                    THEN Respond(ErrorResponse(req.id, -32602,
                                    <<"Missing required parameter: uri">>))
                    ELSE /\ tool' = "read_resource"
                         /\ args' = [uri |-> uri]
                         /\ outcome' = read_resource(uri, now, file)
                         /\ response' = ResourceResponse(req, outcome')
                         /\ pc' = "done"
                         /\ log' = <<>>
                         /\ sent' = <<>>
                         /\ UNCHANGED <<todo, data, answers>>
               ELSE Respond(ErrorResponse(req.id, -32601, <<"Unknown method", method>>))
    /\ UNCHANGED <<srv, ssevars>>

\* --------------------------------------------------- handle_prompt_request
\* the names listed by PROMPTS, in order
PROMPTS == <<"animal_profile", "habitat_weather", "travel_wildlife_briefing">>

\* {"description": ..., "messages": [{"role": "user", "content": {...}}]}
Prompt(description, text) ==
    [description |-> description,
     messages |-> <<[role |-> "user", content |-> [type |-> "text", text |-> text]]>>]

\* get_prompt: the prompt, the 'Unknown prompt' payload, or the exception
\* arguments.get raises when arguments is None
get_prompt(name, arguments) ==
    IF name \in {Lit(PROMPTS[i]) : i \in 1..Len(PROMPTS)}
    THEN IF arguments = PyNone
         THEN Raised("AttributeError", <<"'NoneType' object has no attribute 'get'">>)
         ELSE IF name = Lit("animal_profile")
         THEN LET animal == DictGet(arguments, "animal", "unknown")
                  detail_level == DictGet(arguments, "detail_level", "basic")
              IN  Returned(Prompt(<<"Educational profile for", animal>>,
                        [fmt |-> "animal_profile", detail_level |-> detail_level,
                         animal |-> animal]))
         ELSE IF name = Lit("habitat_weather")
         THEN LET animal == DictGet(arguments, "animal", "unknown")
                  location == DictGet(arguments, "location", "unknown")
              IN  Returned(Prompt(<<"Habitat and weather analysis for", animal, location>>,
                        [fmt |-> "habitat_weather", animal |-> animal,
                         location |-> location]))
         ELSE LET destination == DictGet(arguments, "destination", "unknown")
                  travel_dates == DictGet(arguments, "travel_dates", "unspecified")
              IN  Returned(Prompt(<<"Travel briefing for", destination>>,
                        [fmt |-> "travel_wildlife_briefing", destination |-> destination,
                         travel_dates |-> travel_dates]))
    ELSE Returned([error |-> <<"Unknown prompt", name>>])

PromptArguments ==
    { EmptyDict,
      [animal |-> "lion"],
      [animal |-> "lion", detail_level |-> "detailed"],
      [animal |-> "lion", location |-> "Chicago"],
      [destination |-> "Kenya", travel_dates |-> "June"] }

\* the params objects drawn for prompts/get
PromptParams ==
    {[name |-> Lit(n), arguments |-> a] :
        n \in {"animal_profile", "habitat_weather", "travel_wildlife_briefing", "haiku", ""},
        a \in PromptArguments \cup {PyNone}}
        \cup {[name |-> Lit("animal_profile")], [name |-> PyNone]}
        \cup {[arguments |-> a] : a \in PromptArguments}
        \cup {EmptyDict}

\* the requests posted to /mcp/prompts
PromptRequests ==
    {[path |-> "/mcp/prompts", id |-> i, method |-> "prompts/get", params |-> p] :
        i \in RequestIds, p \in PromptParams \cup {PyNone}}
        \cup {[path |-> "/mcp/prompts", id |-> i, method |-> m, params |-> PyNone] :
                i \in RequestIds, m \in {"prompts/list", "prompts/set", "tools/call"}}

\* the end of the prompts/get branch
PromptResponse(req, out) ==
    IF out.kind = "return" THEN ResultResponse(req.id, out.value)
    ELSE ErrorResponse(req.id, -32603, <<"Prompt generation failed", out.msg>>)

\* POST /mcp/prompts: prompts/list, prompts/get, any other method
HandlePromptRequest ==
    /\ pc = "idle"
    /\ srv = "sse"
    /\ \E req \in PromptRequests :
        LET method == req.method
            params == ParamsOf(req)
            name == DictGet(params, "name", PyNone)
            arguments == DictGet(params, "arguments", EmptyDict)
        IN  /\ request' = req
            /\ IF method = "prompts/list"
               THEN Respond(ResultResponse(req.id, [prompts |-> PROMPTS]))
               ELSE IF method = "prompts/get"
               THEN IF MissingParameter(name)
                    THEN Respond(ErrorResponse(req.id, -32602,
                                    <<"Missing required parameter: name">>))
                    ELSE /\ tool' = "get_prompt"
                         /\ args' = [name |-> name, arguments |-> arguments]
                         /\ outcome' = get_prompt(name, arguments)
                         /\ response' = PromptResponse(req, outcome')
                         /\ pc' = "done"
                         /\ log' = <<>>
                         /\ sent' = <<>>
                         /\ UNCHANGED <<todo, data, answers>>
               ELSE Respond(ErrorResponse(req.id, -32601, <<"Unknown method", method>>))
    /\ UNCHANGED <<srv, ssevars>>

\* ------------------------------------- get_animal_facts (WebSocket variant)
valid_categories ==
    {Word.habitat, Word.diet, Word.behavior, Word.conservation, Word.physical,
     Word.reproduction}

\* the text get_animal_facts returns
get_animal_facts(species, category) ==
    IF Lower(category) \notin valid_categories
    THEN [fmt |-> "Invalid category '{category}'. Available categories: ...",
          category |-> Str(category)]
    ELSE LET species_key == Lower(species)
             category_key == Lower(category)
         IN  IF species_key \notin DOMAIN animal_facts
             THEN [fmt |-> "No facts available for '{species}'. Available animals: ...",
                   species |-> Str(species)]
             ELSE [fmt |-> "# {species.title()} - {category.title()} Facts ...",
                   species |-> Str(Title(species)),
                   category |-> Str(Title(category)),
                   uri |-> Str(Uri(Word.animal, <<Word.facts, species, category>>)),
                   fact |-> DictGet(animal_facts[species_key], category_key,
                                <<"No facts available for", Str(category), Str(species)>>)]

\* the resource template animal://facts/{species}/{category} resolved by the
\* MCP SDK, and get_animal_facts called with the two segments
CallGetAnimalFacts ==
    /\ pc = "idle"
    /\ srv = "ws"
    /\ \E species \in SpeciesDrawn \cup {Upper(Word.lion)},
          category \in CategoriesDrawn \cup {Title(Word.diet)} :
        /\ tool' = "get_animal_facts"
        /\ args' = [species |-> species, category |-> category]
        /\ outcome' = Returned(get_animal_facts(species, category))
    /\ pc' = "done"
    /\ log' = <<>>
    /\ sent' = <<>>
    /\ UNCHANGED <<srv, todo, data, answers, request, response, ssevars>>

\* ------------------------------------------------------------- GET /sse
\* `timeout=30` of the wait on the queue
HeartbeatTimeout == 30

\* the events event_generator yields by itself: 'connected' with the client
\* id v, 'serverInfo' with SERVER_INFO, 'heartbeat' with the time v
SseEvent(type, v) ==
    IF type = "connected" THEN [type |-> type, clientId |-> v]
    ELSE IF type = "serverInfo" THEN [type |-> type, data |-> "SERVER_INFO"]
    ELSE [type |-> type, timestamp |-> v]

\* the record of what a stream has emitted, kept to its first MaxEvents events
Emit(emitted, event) ==
    IF Len(emitted) < MaxEvents THEN Append(emitted, event) ELSE emitted

\* f with f[k] = v
Put(f, k, v) == [x \in DOMAIN f \cup {k} |-> IF x = k THEN v ELSE f[x]]

\* mutant: the generator goes from its first yield straight into the loop
Resumed_NoServerInfo(at) == "waiting"

\* where event_generator runs to when it is resumed at the yield `at`: from
\* the 'connected' yield to the 'serverInfo' yield, from any later yield to
\* the wait on the queue
Resumed(at) == IF at = "connected" THEN "serverInfo" ELSE "waiting"

\* mutant: the timeout of the wait set to one unit
TimedOut_Early(waited) == waited >= 1

\* asyncio.wait_for raises TimeoutError once the wait has lasted `timeout`
TimedOut(waited) == waited = HeartbeatTimeout

\* mutant: the `finally` of event_generator leaves the registry as it is
Unregister_Keep(registry, client_id) == registry

\* `if client_id in sse_connections: del sse_connections[client_id]`
Unregister(registry, client_id) ==
    [c \in DOMAIN registry \ {client_id} |-> registry[c]]

\* the streams whose generator has started and not finished
Open == {s \in DOMAIN streams : streams[s].at # "closed"}

\* stream s is opened in clock second t and event_generator runs to its first
\* yield: client_id = f"client_{int(time.time())}", a fresh queue (named by
\* its stream) is put in the registry under it, 'connected' is emitted
SseConnect(s, t) ==
    /\ pc = "idle"
    /\ srv = "sse"
    /\ s \notin Open
    /\ streams' = Put(streams, s,
            [client_id |-> t, at |-> "connected", waited |-> 0, queue |-> <<>>,
             emitted |-> <<SseEvent("connected", t)>>])
    /\ sse_connections' = Put(sse_connections, t, s)
    /\ UNCHANGED <<srv, pc, tool, args, log, sent, todo, data, answers, outcome,
                   request, response>>

\* the transport has sent the event stream s yielded and resumes the
\* generator, which runs to its next yield or to the wait on its queue
SseResume(s) ==
    /\ pc = "idle"
    /\ srv = "sse"
    /\ s \in Open
    /\ streams[s].at # "waiting"
    /\ LET to == Resumed(streams[s].at)
       IN  streams' = [streams EXCEPT
                ![s].at = to,
                ![s].waited = 0,
                ![s].emitted = IF to = "serverInfo" THEN Emit(@, SseEvent("serverInfo", 0)) ELSE @]
    /\ UNCHANGED <<srv, pc, tool, args, log, sent, todo, data, answers, outcome,
                   request, response, sse_connections>>

\* one time unit passes while stream s waits on its empty queue
SseTick(s) ==
    /\ pc = "idle"
    /\ srv = "sse"
    /\ s \in Open
    /\ streams[s].at = "waiting"
    /\ streams[s].queue = <<>>
    /\ ~TimedOut(streams[s].waited)
    /\ streams' = [streams EXCEPT ![s].waited = @ + 1]
    /\ UNCHANGED <<srv, pc, tool, args, log, sent, todo, data, answers, outcome,
                   request, response, sse_connections>>

\* the wait of stream s on its queue ends: with the queue's first event, which
\* is yielded, or with TimeoutError, and a heartbeat is yielded
SseWaitEnds(s) ==
    /\ pc = "idle"
    /\ srv = "sse"
    /\ s \in Open
    /\ streams[s].at = "waiting"
    /\ \E now \in Clock :
        IF streams[s].queue # <<>>
        THEN streams' = [streams EXCEPT
                ![s].at = "event",
                ![s].queue = Tail(@),
                ![s].emitted = Emit(@, Head(streams[s].queue))]
        ELSE /\ TimedOut(streams[s].waited)
             /\ streams' = [streams EXCEPT
                    ![s].at = "heartbeat",
                    ![s].emitted = Emit(@, SseEvent("heartbeat", now))]
    /\ UNCHANGED <<srv, pc, tool, args, log, sent, todo, data, answers, outcome,
                   request, response, sse_connections>>

\* stream s ends (disconnect or cancellation) and the `finally` runs
SseDisconnect(s) ==
    /\ pc = "idle"
    /\ srv = "sse"
    /\ s \in Open
    /\ streams' = [streams EXCEPT ![s] = [at |-> "closed"]]
    /\ sse_connections' = Unregister(sse_connections, streams[s].client_id)
    /\ UNCHANGED <<srv, pc, tool, args, log, sent, todo, data, answers, outcome,
                   request, response>>

\* ------------------------------------------------------------ GET /health
\* health_check: the number of entries of the registry is reported
HealthCheck ==
    /\ pc = "idle"
    /\ srv = "sse"
    /\ \E now \in Clock :
        /\ request' = [path |-> "/health", id |-> PyNone, method |-> "GET", params |-> PyNone]
        /\ Respond([status |-> "healthy", timestamp |-> now,
                    connections |-> Cardinality(DOMAIN sse_connections)])
    /\ UNCHANGED <<srv, ssevars>>

\* ------------------------------------------------------------------ next
\* the result has been handed to the caller; the next request starts afresh
Finish ==
    /\ pc = "done"
    /\ pc' = "idle"
    /\ UNCHANGED srv
    /\ tool' = "none"
    /\ args' = <<>>
    /\ log' = <<>>
    /\ sent' = <<>>
    /\ todo' = <<>>
    /\ data' = <<>>
    /\ answers' = <<>>
    /\ outcome' = NoOutcome
    /\ request' = NoRequest
    /\ response' = NoResponse
    /\ UNCHANGED ssevars

Next ==
    \/ CallGetWeatherAlerts
    \/ AlertsOk
    \/ AlertsFault
    \/ CallGetWeatherForecast
    \/ GridOk
    \/ GridFault
    \/ ForecastOk
    \/ ForecastHttpFault
    \/ CallGetCoordinates
    \/ GeoWake
    \/ GeoOk
    \/ GeoFault
    \/ HandleToolRequest
    \/ HandleResourceRequest
    \/ HandlePromptRequest
    \/ CallGetAnimalFacts
    \/ Finish

Spec == Init /\ [][Next]_vars

\* the SSE server process: its three POST handlers, the tool calls they
\* start, and one client opening and closing its /sse stream between requests
InitServer == Init /\ srv = "sse"

NextServer ==
    \/ HandleToolRequest
    \/ AlertsOk
    \/ AlertsFault
    \/ GridOk
    \/ GridFault
    \/ ForecastOk
    \/ ForecastHttpFault
    \/ GeoWake
    \/ GeoOk
    \/ GeoFault
    \/ HandleResourceRequest
    \/ HandlePromptRequest
    \/ Finish
    \/ SseConnect(1, 1)
    \/ SseDisconnect(1)

SpecServer == InitServer /\ [][NextServer]_vars

\* one client's /sse stream, from its connection to its end
NextStream ==
    \/ \E t \in Clock : SseConnect(1, t)
    \/ SseResume(1)
    \/ SseTick(1)
    \/ SseWaitEnds(1)
    \/ SseDisconnect(1)

SpecStream == InitServer /\ [][NextStream]_vars

\* the event loop runs every timer that is due and every coroutine that is
\* ready, and the transport takes each event the stream yields
SpecStreamLive ==
    /\ SpecStream
    /\ WF_vars(SseResume(1))
    /\ WF_vars(SseTick(1))
    /\ WF_vars(SseWaitEnds(1))

\* the streams of several clients opening and closing between the requests
\* to /health and /mcp/prompts, none of them waiting long enough to time out
NextStreams ==
    \/ \E s \in 1..MaxStreams, t \in Clock : SseConnect(s, t)
    \/ \E s \in 1..MaxStreams : SseResume(s)
    \/ \E s \in 1..MaxStreams : SseDisconnect(s)
    \/ HealthCheck
    \/ HandlePromptRequest
    \/ Finish

SpecStreams == InitServer /\ [][NextStreams]_vars

\* ------------------------------------------------------------- properties
Last(s) == s[Len(s)]

IsFault(a) == "exc" \in DOMAIN a

\* get_weather_forecast runs with a number for each coordinate
Forecasting == tool = "get_weather_forecast" /\ DOMAIN args = {"latitude", "longitude"}

Geocoding == tool = "get_coordinates"

Alerting == tool = "get_weather_alerts"

\* C1: a get_weather_forecast call whose latitude is outside [-90,90] or whose
\* longitude is outside [-180,180] ends at once with ValueError 'Invalid
\* coordinates' and has issued no HTTP request (nothing is clamped and sent).
C1_OutOfRangeRejected ==
    (Forecasting
        /\ (args.latitude < -90 \/ args.latitude > 90
            \/ args.longitude < -180 \/ args.longitude > 180))
    => /\ pc = "done"
       /\ outcome = Raised("ValueError", <<"Invalid coordinates">>)
       /\ sent = <<>>
       /\ log = <<>>

C1_Witness ==
    /\ Forecasting
    /\ args.latitude = 0
    /\ args.longitude = -181
    /\ outcome.kind = "raise"

\* C2: when the last answer to a get_weather_forecast call is HTTP 404, on
\* either hop, the call returns the soft 'not covered' payload (error text, the
\* coordinates, a suggestion) as a normal value.
C2_NotFoundIsSoft ==
    (Forecasting /\ pc = "done" /\ answers # <<>>
        /\ Last(answers) = [exc |-> "HTTPError", code |-> 404])
    => /\ outcome.kind = "return"
       /\ DOMAIN outcome.value = {"error", "latitude", "longitude", "suggestion"}
       /\ outcome.value.latitude = args.latitude
       /\ outcome.value.longitude = args.longitude

\* a grid-point document without a usable forecast link: 'properties' absent,
\* empty or null, or its 'forecast' absent, null or empty
LacksForecastLink(g) ==
    \/ "properties" \notin DOMAIN g
    \/ "forecast" \notin DOMAIN g.properties
    \/ g.properties.forecast \in {PyNone, Str(<<>>)}

\* C3: when the grid-point document lacks the forecast link, the call ends
\* with a RuntimeError and only the grid-point request has been issued.
C3_MissingLinkIsUpstreamError ==
    (Forecasting /\ answers # <<>> /\ ~IsFault(answers[1])
        /\ LacksForecastLink(answers[1]))
    => /\ pc = "done"
       /\ outcome.kind = "raise"
       /\ outcome.cls = "RuntimeError"
       /\ Len(sent) = 1
       /\ sent[1].api = "points"
       /\ Len(answers) = 1

C3_Witness ==
    /\ Forecasting
    /\ srv = "ws"
    /\ answers = <<[properties |-> [forecast |-> Str(<<>>)]]>>
    /\ outcome.kind = "raise"

\* C4: when a get_weather_forecast request, on either hop, fails with anything
\* but HTTP 404, the call ends with a RuntimeError whose message carries the
\* fault; it neither returns a soft result nor a forecast.
C4_OtherFaultsAreUpstreamErrors ==
    (Forecasting /\ answers # <<>> /\ IsFault(Last(answers))
        /\ Last(answers).code # 404)
    => /\ pc = "done"
       /\ outcome.kind = "raise"
       /\ outcome.cls = "RuntimeError"
       /\ outcome.msg[2] = <<Last(answers).exc, Last(answers).code>>

C4_Witness ==
    /\ Forecasting
    /\ srv = "sse"
    /\ Len(answers) = 2
    /\ answers[2] = [exc |-> "HTTPError", code |-> 503]
    /\ outcome.kind = "raise"

\* the period list of forecast document d, empty when the document has none
UpstreamPeriodList(d) ==
    IF "properties" \in DOMAIN d /\ "periods" \in DOMAIN d.properties
    THEN d.properties.periods
    ELSE <<>>

\* C5: a successful get_weather_forecast returns the first min(7, n) of the n
\* upstream periods, in upstream order, so never more than 7.
C5_FirstSevenPeriods ==
    (Forecasting /\ pc = "done" /\ Len(answers) = 2 /\ ~IsFault(answers[2])
        /\ outcome.kind = "return")
    => LET up == UpstreamPeriodList(answers[2])
           out == outcome.value.periods
       IN  /\ Len(out) <= 7
           /\ Len(out) = (IF Len(up) < 7 THEN Len(up) ELSE 7)
           /\ \A i \in 1..Len(out) : i <= Len(up) /\ out[i].name = up[i].name

\* the display name the selection policy reads off candidate c
NameOf(c) == IF "display_name" \in DOMAIN c THEN c.display_name.str ELSE <<>>

NamesUs(c) == Contains(NameOf(c), UnitedStates)

NamesState(c) ==
    \E state \in StateCodes :
        \/ \E i \in 1..Len(NameOf(c)) :
              /\ i + 3 <= Len(NameOf(c))
              /\ NameOf(c)[i] = " "
              /\ <<NameOf(c)[i + 1], NameOf(c)[i + 2]>> = state
              /\ NameOf(c)[i + 3] = " "
        \/ /\ Len(NameOf(c)) >= 3
           /\ SubSeq(NameOf(c), Len(NameOf(c)) - 2, Len(NameOf(c))) = <<" ">> \o state

Least(S) == CHOOSE i \in S : \A j \in S : i <= j

\* the place in list l of the candidate the stated policy prefers
Preferred(l) ==
    LET us == {i \in 1..Len(l) : NamesUs(l[i])}
        st == {i \in 1..Len(l) : NamesState(l[i])}
    IN  IF us # {} THEN Least(us) ELSE IF st # {} THEN Least(st) ELSE 1

\* C6: in the SSE variant, the candidate a found=true result reports is the
\* first 'United States' candidate of the accumulated list if there is one,
\* else the first with a state code as a separate word or suffix if there is
\* one, else the first candidate.
C6_CandidateSelection ==
    (Geocoding /\ srv = "sse" /\ pc = "done" /\ outcome.value.found)
    => /\ data # <<>>
       /\ LET c == data[Preferred(data)]
          IN  /\ outcome.value.latitude = DigitsValue(c.lat.str)
              /\ outcome.value.longitude = DigitsValue(c.lon.str)
              /\ outcome.value.display_name
                    = (IF "display_name" \in DOMAIN c THEN c.display_name
                       ELSE args.location)

C6_Witness ==
    /\ Geocoding
    /\ srv = "sse"
    /\ pc = "done"
    /\ Len(data) = 2
    /\ NameOf(data[1]) = <<"S",","," ","G","e","r">>
    /\ NamesUs(data[2])
    /\ outcome.value.found
    /\ outcome.value.latitude = 12

\* the text holds a 2-letter state code, letter case aside
HoldsStateCode(text) ==
    \E i \in 1..(Len(text) - 1) : <<UpperChar(text[i]), UpperChar(text[i + 1])>> \in StateCodes

BatchHasUs(a) == ~IsFault(a) /\ \E i \in 1..Len(a.batch) : NamesUs(a.batch[i])

\* C7: get_coordinates issues the raw-text query first and at most one more,
\* the 'United States' one; that one exists only for a text holding a state
\* code and is issued only after a first batch without a 'United States'
\* result; a batch with such a result ends the querying; and the SSE variant
\* does issue it after such a first batch for such a text.
C7_QuerySequence ==
    (Geocoding /\ args.location # PyNone)
    => /\ Len(sent) <= 2
       /\ Len(sent) + Len(todo) <= 2
       /\ Len(sent) + Len(todo) = 2 => HoldsStateCode(args.location.str)
       /\ Len(sent) >= 1 => sent[1].q = args.location.str
       /\ Len(sent) = 2 =>
            /\ sent[2].q = args.location.str \o <<" ">> \o UnitedStates
            /\ ~IsFault(answers[1])
            /\ ~BatchHasUs(answers[1])
       /\ \A k \in 1..Len(answers) :
            BatchHasUs(answers[k]) => pc = "done" /\ Len(sent) = k
       /\ (srv = "sse" /\ pc = "done" /\ HoldsStateCode(args.location.str)
            /\ ~IsFault(answers[1]) /\ ~BatchHasUs(answers[1]))
          => Len(sent) = 2

C7_Witness ==
    /\ Geocoding
    /\ srv = "sse"
    /\ pc = "done"
    /\ Len(sent) = 1
    /\ todo # <<>>
    /\ BatchHasUs(answers[1])
    /\ outcome.value.found

\* C8: every query of get_coordinates, the first included, comes right after
\* a sleep, and a query is sent only after the previous one was answered.
C8_DelayBeforeEveryQuery ==
    Geocoding
    => /\ \A i \in 1..Len(log) :
            log[i] = "send" => i > 1 /\ log[i - 1] = "sleep"
       /\ \A i, j \in 1..Len(log) :
            (i < j /\ log[i] = "send" /\ log[j] = "send")
            => \E k \in (i + 1)..(j - 1) : log[k] = "recv"
       /\ Cardinality({i \in 1..Len(log) : log[i] = "send"}) = Len(sent)

C8_Witness ==
    /\ Geocoding
    /\ Len(sent) = 2
    /\ log = <<"sleep", "send", "recv", "sleep", "send">>

\* C9: get_coordinates always returns: found=false with 'suggestion' (and no
\* 'fallback') when the upstream answered without fault and gave no candidate,
\* found=false with 'fallback' (and no 'suggestion') after any fault, and
\* found=true only when a candidate was received.
C9_NeverRaises ==
    (Geocoding /\ pc = "done")
    => /\ outcome.kind = "return"
       /\ LET v == outcome.value
              faulted == args.location = PyNone
                            \/ (answers # <<>> /\ IsFault(Last(answers)))
          IN  /\ v.found => data # <<>> /\ ~faulted
              /\ ~v.found => "error" \in DOMAIN v
                                /\ ("suggestion" \in DOMAIN v) # ("fallback" \in DOMAIN v)
              /\ (~faulted /\ data = <<>>)
                    => ~v.found /\ "suggestion" \in DOMAIN v
              /\ faulted => ~v.found /\ "fallback" \in DOMAIN v

C9_Witness ==
    /\ Geocoding
    /\ pc = "done"
    /\ Len(answers) = 2
    /\ data # <<>>
    /\ IsFault(answers[2])
    /\ ~outcome.value.found
    /\ "fallback" \in DOMAIN outcome.value

\* C10: get_weather_alerts with an absent, empty or not 2-character state ends
\* at once with ValueError and no HTTP request; with a 2-character state it
\* issues exactly one request, for the upper-cased state.
C10_AlertsValidation ==
    Alerting
    => IF args.state = PyNone \/ Len(args.state.str) # 2
       THEN /\ pc = "done"
            /\ outcome.kind = "raise"
            /\ outcome.cls = "ValueError"
            /\ sent = <<>>
       ELSE /\ Len(sent) = 1
            /\ sent[1].api = "alerts"
            /\ Len(sent[1].area) = 2
            /\ \A i \in 1..2 :
                sent[1].area[i] = (IF args.state.str[i] = "r" THEN "R" ELSE args.state.str[i])

C10_Witness ==
    /\ Alerting
    /\ pc = "done"
    /\ args.state = Str(<<"r", "I">>)
    /\ sent = <<[api |-> "alerts", area |-> <<"R", "I">>]>>
    /\ outcome.kind = "return"

\* ------------------------------------------- properties of the SSE handlers
\* a handler of the SSE variant has returned its response
Responded == request # NoRequest /\ pc = "done"

\* the handler for `path` has returned from its branch for `method`
Answered(path, method) ==
    Responded /\ request.path = path /\ request.method = method

\* params.get(k) of the request being handled
Param(k) == DictGet(ParamsOf(request), k, PyNone)

\* r is an error envelope with this code
IsError(r, code) ==
    /\ r # NoResponse
    /\ r.result = PyNone
    /\ r.error # PyNone
    /\ r.error.code = code

KnownTools == {Lit("get_weather_alerts"), Lit("get_coordinates"), Lit("get_weather_forecast")}

\* the request of the state r names a tool, and the tool table does not hold it
NamesUnknownTool(r) ==
    /\ r # NoRequest
    /\ r.path = "/mcp/tools"
    /\ r.method = "tools/call"
    /\ "name" \in DOMAIN ParamsOf(r)
    /\ ParamsOf(r).name \notin KnownTools

\* C11: a tools/call that names a tool missing from the tool table is answered,
\* in the one step of the handler, by the error envelope -32601 'Unknown tool';
\* that step enters no tool function, issues no outbound HTTP request, and
\* leaves the connection registry and the open streams as they were.
C11_UnknownToolRejected ==
    [][ NamesUnknownTool(request') /\ request = NoRequest
        => /\ IsError(response', -32601)
           /\ response'.error.message = <<"Unknown tool", ParamsOf(request').name>>
           /\ pc' = "done"
           /\ tool' = "none"
           /\ sent' = <<>>
           /\ log' = <<>>
           /\ answers' = answers
           /\ sse_connections' = sse_connections
           /\ streams' = streams ]_vars

\* C11 witness: an unknown tool was refused while a stream was registered
C11_Witness ==
    /\ NamesUnknownTool(request)
    /\ IsError(response, -32601)
    /\ DOMAIN sse_connections # {}

\* the arguments object of a tools/call, {} when it is left out or null
ArgumentsGiven ==
    LET a == DictGet(ParamsOf(request), "arguments", EmptyDict)
    IN  IF a = PyNone THEN EmptyDict ELSE a

\* the tools/call being handled leaves out the tool name, or leaves out or
\* gives a bad `state`, or leaves out or gives an out-of-range coordinate
InvalidToolParams ==
    \/ Param("name") = PyNone
    \/ /\ Param("name") = Lit("get_weather_alerts")
       /\ \/ "state" \notin DOMAIN ArgumentsGiven
          \/ Len(ArgumentsGiven.state.str) # 2
    \/ /\ Param("name") = Lit("get_weather_forecast")
       /\ \/ "latitude" \notin DOMAIN ArgumentsGiven
          \/ "longitude" \notin DOMAIN ArgumentsGiven
          \/ ArgumentsGiven.latitude < -90 \/ ArgumentsGiven.latitude > 90
          \/ ArgumentsGiven.longitude < -180 \/ ArgumentsGiven.longitude > 180

\* C12: a tools/call whose parameters are missing or invalid (no tool name; no
\* state or a state that is not 2 characters; no latitude or longitude, or one
\* out of range) is answered by an error envelope with code -32602.
C12_InvalidParamsCode ==
    Answered("/mcp/tools", "tools/call") /\ InvalidToolParams
        => IsError(response, -32602)

\* the resources/read or prompts/get being answered lacks its uri or its name
LacksUri == Answered("/mcp/resources", "resources/read") /\ PyNot(Param("uri"))

LacksName == Answered("/mcp/prompts", "prompts/get") /\ PyNot(Param("name"))

\* C13: a resources/read without a non-empty uri, and a prompts/get without a
\* non-empty name, are answered by the error envelope -32602, and neither the
\* resource reader nor the prompt generator has been invoked.
C13_MissingParameterRejected ==
    LacksUri \/ LacksName
        => /\ IsError(response, -32602)
           /\ tool = "none"
           /\ outcome = NoOutcome

\* C13 witness: a resources/read with the empty string for its uri was refused
C13_Witness ==
    /\ LacksUri
    /\ Param("uri") = Str(<<>>)
    /\ IsError(response, -32602)

\* r is a response envelope: exactly one of result and error is set
IsEnvelope(r) ==
    /\ r # NoResponse
    /\ DOMAIN r = {"jsonrpc", "id", "result", "error"}
    /\ (r.result = PyNone) # (r.error = PyNone)

\* C14: every request to the tools, resources and prompts endpoints is answered
\* by one response envelope, returned when the handler ends and not before; an
\* exception raised by a tool function (bad input or upstream fault) never
\* leaves the handler but becomes the error envelope -32603; and once the
\* response is out the server is idle again with nothing kept of the request.
C14_AlwaysOneEnvelope ==
    /\ request # NoRequest /\ pc # "done" => response = NoResponse
    /\ Responded => IsEnvelope(response) /\ response.id = request.id
    /\ Responded /\ request.path = "/mcp/tools" /\ outcome.kind = "raise"
        => IsError(response, -32603)
    /\ pc = "idle" => request = NoRequest /\ response = NoResponse /\ outcome = NoOutcome

\* C14 witness: an upstream fault inside a tool call came back as -32603
C14_Witness ==
    /\ Answered("/mcp/tools", "tools/call")
    /\ answers # <<>>
    /\ IsFault(Last(answers))
    /\ outcome.kind = "raise"
    /\ IsError(response, -32603)

\* ------------------------------------------ properties of the resources
\* read_resource has been called
Reading == tool = "read_resource"

\* read_resource has been called on this uri string
ReadingUri(uri) == Reading /\ args.uri = Str(uri)

\* the payload read_resource returned
Payload == outcome.value

HasContents(p) == "contents" \in DOMAIN p /\ "error" \notin DOMAIN p

HasError(p) == "error" \in DOMAIN p /\ "contents" \notin DOMAIN p

\* C15: reading animal://<name>, for each animal that resources/list
\* advertises, goes to the static description reader: the payload is the
\* description's content or 'Animal resource not found', never 'Unknown
\* resource URI'.
C15_StaticAnimalRead ==
    \A a \in StaticAnimals :
        ReadingUri(Uri(Word.animal, <<a>>))
            => /\ outcome.kind = "return"
               /\ \/ HasContents(Payload)
                  \/ HasError(Payload) /\ Payload.error[1] = "Animal resource not found"

\* the text of the facts answer: the SSE variant's payload text, the str the
\* WebSocket variant's get_animal_facts returns
FactsText == IF srv = "sse" THEN Payload.contents[1].text ELSE outcome.value

\* animal://facts/<species>/<category> has been read
ReadingFacts(species, category) ==
    IF srv = "sse"
    THEN ReadingUri(Uri(Word.animal, <<Word.facts, species, category>>))
    ELSE tool = "get_animal_facts" /\ args = [species |-> species, category |-> category]

\* the fixed fact table of the running variant
FactTable == IF srv = "sse" THEN facts_db ELSE animal_facts

\* C16: reading animal://facts/<species>/<category> returns a normal content
\* payload, never an exception: with the table's entry string when (species,
\* category) is in the fact table, and otherwise with the message 'No
\* <category> information available for <species>.'.
C16_FactLookup ==
    \A species \in SpeciesDrawn, category \in CategoriesDrawn :
        ReadingFacts(species, category)
            => /\ outcome.kind = "return"
               /\ srv = "sse" => HasContents(Payload)
               /\ IF species \in DOMAIN FactTable /\ category \in DOMAIN FactTable[species]
                  THEN /\ "fact" \in DOMAIN FactsText
                       /\ FactsText.fact = FactTable[species][category]
                  ELSE \/ FactsText = NoInformation(category, species)
                       \/ /\ "fact" \in DOMAIN FactsText
                          /\ FactsText.fact = NoInformation(category, species)

\* the locations generate_weather_report supports, among those drawn
SupportedDrawn == LocationsDrawn \cap DOMAIN location_coords

WeatherUri(location, days) == Uri(Word.weather, <<Word.report, location, days>>)

\* the day entries of the report returned
Entries == Payload.contents[1].text.entries

\* the heading of day index i
DayLabel(i) ==
    IF i = 0 THEN "Today" ELSE IF i = 1 THEN "Tomorrow" ELSE "Day " \o ToString(i + 1)

\* C17: reading weather://report/<location>/<d> for a supported location and
\* d in 1..14 returns a report with exactly d day entries in index order
\* (Today, Tomorrow, Day 3, ...), entry i with high 70 + (2*i mod 20) and low
\* 15 below its high.
C17_ReportDays ==
    \A location \in SupportedDrawn, d \in 1..14 :
        ReadingUri(WeatherUri(location, Decimal(d)))
            => /\ outcome.kind = "return"
               /\ HasContents(Payload)
               /\ Len(Entries) = d
               /\ \A i \in 0..(d - 1) :
                    /\ Entries[i + 1].day_name = DayLabel(i)
                    /\ Entries[i + 1].temp_high = 70 + ((2 * i) % 20)
                    /\ Entries[i + 1].temp_low = Entries[i + 1].temp_high - 15

\* C17 witness: a 14-day report for providence-ri was returned
C17_Witness ==
    /\ ReadingUri(WeatherUri(Word.providence_ri, Decimal(14)))
    /\ HasContents(Payload)
    /\ Len(Entries) = 14

\* a weather report for a supported location and d in 1..14 has been returned
Reported(location, d) ==
    ReadingUri(WeatherUri(location, Decimal(d))) /\ HasContents(Payload)

\* C18 (as stated): in every report for d in 1..14 the highs, and the lows, are
\* non-decreasing in the day index over the whole report.
C18_MonotoneThroughout ==
    \A location \in SupportedDrawn, d \in 1..14 :
        Reported(location, d)
            => \A i \in 1..d, j \in 1..d :
                    i < j => /\ Entries[i].temp_high <= Entries[j].temp_high
                             /\ Entries[i].temp_low <= Entries[j].temp_low

\* C18 (amended): in every report for d in 1..14 the highs, and the lows, are
\* non-decreasing over the day indices below 10; at index 10 the formula wraps
\* back to 70, so in a report of 11 days or more day 11 is colder than day 10.
C18_MonotoneBelowTen ==
    \A location \in SupportedDrawn, d \in 1..14 :
        Reported(location, d)
            => /\ \A i \in 1..d, j \in 1..d :
                    i < j /\ j <= 10
                        => /\ Entries[i].temp_high <= Entries[j].temp_high
                           /\ Entries[i].temp_low <= Entries[j].temp_low
               /\ d >= 11 => /\ Entries[11].temp_high = 70
                             /\ Entries[11].temp_high < Entries[10].temp_high
                             /\ Entries[11].temp_low < Entries[10].temp_low

\* C18 witness: a report long enough to wrap was returned
C18_Witness ==
    /\ Reported(Word.chicago_il, 11)
    /\ Len(Entries) = 11

\* the day texts drawn that are no integer, or an integer outside 1..14
DaysRefusable ==
    {Decimal(n) : n \in (0..MaxDays) \ (1..14)}
        \cup {<<"x">>, <<"-", "1">>, <<"3", ".", "5">>, <<>>}

\* the day texts drawn that are an integer in 1..14
DaysAcceptable == {Decimal(n) : n \in 1..14} \cup {<<"0", "7">>}

YearsAcceptable == {Decimal(y) : y \in {1900, 1987, 2024}}

MonthsAcceptable == {Decimal(m) : m \in 1..12} \cup {<<"0", "1">>}

ClimateUri(location, year, month) == Uri(Word.climate, <<location, year, month>>)

\* C19: the ranges are enforced by refusing, never by clamping or wrapping: a
\* weather report is produced only for an integer number of days in 1..14, a
\* climate report only for an integer year in 1900..2024 and an integer month
\* in 1..12; any other value gives an error payload and no content, and every
\* in-range climate request, and every in-range weather request for a
\* supported location, gives content.
C19_RangesRefuse ==
    /\ \A location \in LocationsDrawn, days \in DaysDrawn :
        ReadingUri(WeatherUri(location, days))
            => /\ outcome.kind = "return"
               /\ days \in DaysRefusable => HasError(Payload)
               /\ days \in DaysAcceptable /\ location \in SupportedDrawn
                    => HasContents(Payload)
               /\ HasContents(Payload) => days \in DaysAcceptable
    /\ \A location \in {Word.boston, <<>>}, year \in YearsDrawn, month \in MonthsDrawn :
        ReadingUri(ClimateUri(location, year, month))
            => /\ outcome.kind = "return"
               /\ IF year \in YearsAcceptable /\ month \in MonthsAcceptable
                  THEN HasContents(Payload)
                  ELSE HasError(Payload)

\* C19 witness: 15 days for a supported location were refused
C19_Witness ==
    /\ ReadingUri(WeatherUri(Word.providence_ri, Decimal(15)))
    /\ HasError(Payload)
    /\ Payload.error = <<"Days must be between 1 and 14">>

\* C20: read_resource is total: whatever the uri (short ones that lack
\* segments and unknown schemes included) it returns a payload that holds
\* either contents or an error, and never raises, so resources/read is never
\* answered by -32603.
C20_ReadResourceTotal ==
    Reading
        => /\ outcome.kind = "return"
           /\ HasContents(Payload) \/ HasError(Payload)
           /\ response = ResultResponse(request.id, Payload)

\* C20 witness: the short uri 'animal://facts' was answered by an error payload
C20_Witness ==
    /\ ReadingUri(Uri(Word.animal, <<Word.facts>>))
    /\ outcome.kind = "return"
    /\ HasError(Payload)

\* ------------------------------------------- properties of unknown names
\* the methods each endpoint dispatches on
MethodsOf(path) ==
    IF path = "/mcp/tools" THEN {"tools/list", "tools/call"}
    ELSE IF path = "/mcp/resources" THEN {"resources/list", "resources/read"}
    ELSE {"prompts/list", "prompts/get"}

\* the uri is one of the static uris resources/list advertises, or begins as
\* one of its three templates does
Recognized(uri) ==
    \/ uri \in {Uri(Word.animal, <<a>>) : a \in StaticAnimals}
    \/ StartsWith(uri, Uri(Word.animal, <<Word.facts, <<>>>>))
    \/ StartsWith(uri, Uri(Word.weather, <<Word.report, <<>>>>))
    \/ StartsWith(uri, Uri(Word.climate, <<>>))

\* the resources/read being answered names a uri that is a non-empty str and
\* is not recognized
ReadsUnrecognizedUri ==
    /\ Answered("/mcp/resources", "resources/read")
    /\ "str" \in DOMAIN Param("uri")
    /\ Param("uri").str # <<>>
    /\ ~Recognized(Param("uri").str)

KnownPrompts == {Lit(PROMPTS[i]) : i \in 1..Len(PROMPTS)}

\* the prompts/get being answered names a prompt the prompt table does not hold
GetsUnknownPrompt ==
    /\ Answered("/mcp/prompts", "prompts/get")
    /\ Param("name") \notin KnownPrompts \cup {PyNone, Lit("")}

\* C21: every unknown name is reported as what it is.  A method the endpoint
\* does not dispatch on is answered by error -32601 'Unknown method: <m>'; a
\* tool missing from the tool table by error -32601 'Unknown tool: <t>'; an
\* unrecognized resource uri by the payload {'error': 'Unknown resource URI:
\* <u>'}; an unknown prompt name by the payload {'error': 'Unknown prompt:
\* <p>'}.  None of the four is answered by the execution failure -32603.
C21_UnknownNamesDistinct ==
    /\ Responded /\ request.method \notin MethodsOf(request.path)
        => /\ IsError(response, -32601)
           /\ response.error.message = <<"Unknown method", request.method>>
    /\ Responded /\ NamesUnknownTool(request)
        => /\ IsError(response, -32601)
           /\ response.error.message = <<"Unknown tool", Param("name")>>
    /\ ReadsUnrecognizedUri
        => /\ response.error = PyNone
           /\ response.result = [error |-> <<"Unknown resource URI", Param("uri")>>]
    /\ GetsUnknownPrompt
        => /\ response.error = PyNone
           /\ response.result = [error |-> <<"Unknown prompt", Param("name")>>]

\* C21 witness: a uri of a scheme no reader knows was answered by the
\* 'Unknown resource URI' payload
C21_Witness ==
    /\ ReadsUnrecognizedUri
    /\ Param("uri") = Str(Uri(Word.ftp, <<Word.boston>>))
    /\ "error" \in DOMAIN response.result
    /\ response.result.error[1] = "Unknown resource URI"

\* ------------------------------------------- properties of the /sse stream
\* the types of the events e, in order
Types(e) == [i \in 1..Len(e) |-> e[i].type]

\* C22: on every connection the first event emitted is 'connected', carrying
\* the connection's client id, and the second is 'serverInfo'; neither is
\* emitted again; and the generator is in its loop, where it emits queued
\* events and heartbeats, only after both are out.
C22_ConnectedThenServerInfo ==
    \A s \in Open :
        LET e == streams[s].emitted
        IN  /\ Len(e) >= 1
            /\ e[1].type = "connected" /\ e[1].clientId = streams[s].client_id
            /\ Len(e) >= 2 => e[2].type = "serverInfo"
            /\ \A i \in 3..Len(e) : e[i].type \notin {"connected", "serverInfo"}
            /\ streams[s].at = "connected" => Len(e) = 1
            /\ streams[s].at = "serverInfo" => Len(e) = 2
            /\ streams[s].at \in {"waiting", "event", "heartbeat"} => Len(e) >= 2

\* C22 witness: a stream back in its wait after its first heartbeat, having
\* emitted connected, serverInfo, heartbeat
C22_Witness ==
    /\ 1 \in Open
    /\ streams[1].at = "waiting"
    /\ Types(streams[1].emitted) = <<"connected", "serverInfo", "heartbeat">>

\* stream s is open and its generator is at the yield or await `a`
At(s, a) == s \in Open /\ streams[s].at = a

\* stream s is open and its generator is at `a` after the step
AtNext(s, a) == s \in DOMAIN streams' /\ streams'[s].at = a

\* the events the step adds to what stream s has emitted
Added(s) ==
    SubSeq(streams'[s].emitted, Len(streams[s].emitted) + 1, Len(streams'[s].emitted))

\* the step adds exactly one event to what stream s has emitted (none once the
\* record holds its first MaxEvents events) and takes none away
EmitsOne(s) ==
    /\ streams'[s].emitted = streams[s].emitted \o Added(s)
    /\ Len(Added(s)) = IF Len(streams[s].emitted) < MaxEvents THEN 1 ELSE 0

\* C23: a heartbeat is emitted only by the step that ends a wait which has
\* lasted the full 30 units on an empty queue, and that step emits exactly
\* the one heartbeat; a wait that ends on a queued event emits that event and
\* no heartbeat; while the wait lasts nothing is emitted; from the heartbeat
\* the generator goes nowhere but back to a fresh wait (or the stream ends),
\* so two heartbeats are always a full wait apart; and an open stream emits
\* again and again for as long as it stays open.
C23_Heartbeat ==
    /\ [][ \A s \in 1..MaxStreams :
            /\ AtNext(s, "heartbeat") /\ ~At(s, "heartbeat")
                => /\ At(s, "waiting")
                   /\ streams[s].waited = HeartbeatTimeout
                   /\ streams[s].queue = <<>>
                   /\ streams'[s].queue = <<>>
                   /\ EmitsOne(s)
                   /\ \A i \in 1..Len(Added(s)) :
                        Added(s)[i].type = "heartbeat" /\ Added(s)[i].timestamp \in Clock
            /\ At(s, "waiting") /\ streams[s].queue # <<>> /\ streams'[s] # streams[s]
                => \/ AtNext(s, "closed")
                   \/ /\ AtNext(s, "event")
                      /\ EmitsOne(s)
                      /\ \A i \in 1..Len(Added(s)) : Added(s)[i] = Head(streams[s].queue)
            /\ At(s, "waiting") /\ AtNext(s, "waiting")
                => /\ streams'[s].emitted = streams[s].emitted
                   /\ streams'[s].waited \in {streams[s].waited, streams[s].waited + 1}
                   /\ streams'[s].waited <= HeartbeatTimeout
            /\ At(s, "heartbeat") /\ streams'[s] # streams[s]
                => \/ AtNext(s, "closed")
                   \/ /\ AtNext(s, "waiting")
                      /\ streams'[s].waited = 0
                      /\ streams'[s].emitted = streams[s].emitted ]_vars
    /\ \A s \in 1..MaxStreams :
        []<>(s \notin Open \/ streams[s].at \in {"heartbeat", "event"})

\* C23 witness: a wait has timed out and the stream is at its heartbeat yield
C23_Witness ==
    /\ At(1, "heartbeat")
    /\ streams[1].waited = HeartbeatTimeout
    /\ streams[1].emitted[Len(streams[1].emitted)].type = "heartbeat"

\* ----------------------------------- properties of the connection registry
\* the step starts the generator of stream s
Opens(s) == s \notin Open /\ s \in Open'

\* the step ends stream s
Closes(s) == s \in Open /\ s \notin Open'

\* C24: the step that starts a stream's generator inserts the entry for the
\* stream's client id, mapped to the stream's own queue, and changes nothing
\* else in the registry; the step that ends a stream leaves no entry under
\* that stream's client id and touches no other entry; the registry changes
\* in no other step, so no handler of /mcp/tools, /mcp/resources,
\* /mcp/prompts or /health inserts or removes an entry; and whenever every
\* stream has closed, the registry is empty.
C24_RegistryLifecycle ==
    /\ [](Open = {} => sse_connections = EmptyDict)
    /\ [][ \A s \in 1..MaxStreams :
            /\ Opens(s)
                => /\ DOMAIN sse_connections' = DOMAIN sse_connections \cup {streams'[s].client_id}
                   /\ sse_connections'[streams'[s].client_id] = s
                   /\ \A c \in DOMAIN sse_connections \ {streams'[s].client_id} :
                        sse_connections'[c] = sse_connections[c]
            /\ Closes(s)
                => /\ DOMAIN sse_connections' = DOMAIN sse_connections \ {streams[s].client_id}
                   /\ \A c \in DOMAIN sse_connections' : sse_connections'[c] = sse_connections[c]
         ]_vars
    /\ [][ sse_connections' # sse_connections
            => /\ \E s \in 1..MaxStreams : Opens(s) \/ Closes(s)
               /\ pc = "idle" /\ pc' = "idle"
               /\ request' = request
               /\ response' = response ]_vars

\* C24 witness: two streams have been opened, both have closed, and the
\* registry is empty
C24_Witness ==
    /\ Cardinality(DOMAIN streams) >= 2
    /\ Open = {}
    /\ sse_connections = EmptyDict

\* C29: at every moment each open stream has its own entry in the registry,
\* under a client id no other open stream has, mapped to its own queue, so
\* that closing another stream can neither have removed nor replaced it; and
\* the number of connections /health reports is the number of open streams.
C29_OwnEntryPerStream ==
    /\ \A s \in Open :
        /\ streams[s].client_id \in DOMAIN sse_connections
        /\ sse_connections[streams[s].client_id] = s
    /\ \A s1, s2 \in Open : s1 # s2 => streams[s1].client_id # streams[s2].client_id
    /\ Responded /\ request.path = "/health"
        => response.connections = Cardinality(Open)

\* ------------------------------------- properties of the two variants' tools
\* what get_weather_alerts of variant s returns or raises for arguments a when
\* the upstream answers ans; NoOutcome when ans ends before the call does
AlertsOutcome(s, a, ans) ==
    IF ~AlertsValid(a.state) THEN Raised("ValueError", <<AlertsInvalidText(s)>>)
    ELSE IF ans = <<>> THEN NoOutcome
    ELSE IF IsFault(ans[1])
    THEN Raised("RuntimeError", <<"Failed to fetch weather alerts", FaultText(ans[1])>>)
    ELSE Returned([i \in 1..Len(ans[1].features) |-> AlertRecord(s, ans[1].features[i])])

\* the same for get_weather_forecast
ForecastOutcome(s, a, ans) ==
    IF DOMAIN a # {"latitude", "longitude"} THEN CoordinateMissing(a)
    ELSE IF ~CoordinatesValid(a.latitude, a.longitude)
    THEN Raised("ValueError", <<"Invalid coordinates">>)
    ELSE IF ans = <<>> THEN NoOutcome
    ELSE IF IsFault(ans[1]) THEN ForecastFault(s, ans[1], a.latitude, a.longitude)
    ELSE LET link == GridLink(s, ans[1])
         IN  IF ~link.ok THEN ForecastFault(s, link.fault, a.latitude, a.longitude)
             ELSE IF Len(ans) < 2 THEN NoOutcome
             ELSE IF IsFault(ans[2]) THEN ForecastFault(s, ans[2], a.latitude, a.longitude)
             ELSE FormatForecast(s, ans[2], a.latitude, a.longitude)

\* the query loop of get_coordinates, with the queries `queries` still to
\* issue, the candidates `found` so far and the answers ans still to come
RECURSIVE GeoLoop(_, _, _, _, _)
GeoLoop(s, location, queries, found, ans) ==
    IF ans = <<>> THEN NoOutcome
    ELSE IF IsFault(Head(ans)) THEN CoordinatesFallback(location, Head(ans))
    ELSE LET batch == Head(ans).batch
             all == found \o batch
         IN  IF LoopEnds(s, batch, Tail(queries))
             THEN CoordinatesResult(s, location, all)
             ELSE GeoLoop(s, location, Tail(queries), all, Tail(ans))

\* the same for get_coordinates
GeoOutcome(s, a, ans) ==
    IF a.location = PyNone
    THEN CoordinatesFallback(a.location, [exc |-> "TypeError", code |-> 0])
    ELSE GeoLoop(s, a.location, SearchUrls(s, a.location.str), <<>>, ans)

\* the outcome of the running tool in variant s, the arguments and the
\* upstream answers being those of this call
OutcomeIn(s) ==
    IF tool = "get_weather_alerts" THEN AlertsOutcome(s, args, answers)
    ELSE IF tool = "get_weather_forecast" THEN ForecastOutcome(s, args, answers)
    ELSE GeoOutcome(s, args, answers)

\* the same kind of outcome and, for a returned result, the same data
SameOutcome(o1, o2) ==
    /\ o1.kind = o2.kind
    /\ o1.kind = "return" => o1.value = o2.value

\* one of the three tools has run to its end
ToolDone ==
    pc = "done" /\ tool \in {"get_weather_alerts", "get_coordinates", "get_weather_forecast"}

\* the replay of this call in its own variant gives the outcome of the call
ReplayAgrees == ToolDone => outcome = OutcomeIn(srv)

\* C25: whenever one of the three tools has run to its end, the other variant,
\* given the same arguments and the same upstream answers in the same order,
\* ends with the same kind of outcome (returned result, soft result, raised
\* fault) and, when it returns, with the same result data.
C25_VariantsAgree ==
    ToolDone /\ OutcomeIn("sse") # NoOutcome /\ OutcomeIn("ws") # NoOutcome
        => SameOutcome(OutcomeIn("sse"), OutcomeIn("ws"))

\* ------------------------------------- properties of the response on the wire
\* the tools/call being answered ended with the tool's result
CallSucceeded == Answered("/mcp/tools", "tools/call") /\ outcome.kind = "return"

\* C26: the body of the response to a tools/call has an 'error' member exactly
\* when the call failed: after a call that succeeded (a forecast for valid
\* coordinates with the upstream healthy, say) the client's test `'error' in
\* result` is false, after a call that failed it is true.
C26_ErrorMemberIffFailed ==
    Answered("/mcp/tools", "tools/call") => (ErrorInResult(Body) <=> ~CallSucceeded)

\* ------------------------------------------ properties of the generators
\* read_resource has been called on a weather://report/ or a climate:// uri
GeneratorRead ==
    /\ Reading
    /\ "str" \in DOMAIN args.uri
    /\ \/ StartsWith(args.uri.str, Uri(Word.weather, <<Word.report, <<>>>>))
       \/ StartsWith(args.uri.str, Uri(Word.climate, <<>>))

\* the payload a read of the same uri returns when the clock reads t
ReadAt(t) == read_resource(args.uri, t, CHOOSE f \in FileReads : f.ok).value

\* the payload carries the time it was generated at
Stamped(p) == HasContents(p) /\ "generated" \in DOMAIN p.contents[1].text

\* payload p without the time it was generated at
Unstamped(p) ==
    IF Stamped(p)
    THEN LET text == p.contents[1].text
         IN  [contents |-> <<[type |-> p.contents[1].type,
                              text |-> [k \in DOMAIN text \ {"generated"} |-> text[k]]]>>]
    ELSE p

\* C27 (as stated): a read of a weather://report/ or climate:// uri returns
\* the payload that a read of the same uri returns at any other time.
C27_SameAtAnyTime ==
    GeneratorRead => \A t \in Clock : ReadAt(t) = Payload

\* C27 (amended): two reads of the same uri at any two times return payloads
\* that are identical but for the time of generation a weather report
\* carries, which is the time of its read; climate payloads and error
\* payloads carry no such time and are identical outright.
C27_SameButForStamp ==
    GeneratorRead =>
        \A t \in Clock :
            /\ Unstamped(ReadAt(t)) = Unstamped(Payload)
            /\ Stamped(ReadAt(t)) <=> Stamped(Payload)
            /\ Stamped(Payload) => ReadAt(t).contents[1].text.generated = t
            /\ ~Stamped(Payload) => ReadAt(t) = Payload
            /\ StartsWith(args.uri.str, Uri(Word.climate, <<>>)) => ~Stamped(Payload)

\* C27 witness: a three-day report read when the clock reads 1, which differs
\* from the report read at 0 in its time of generation and in nothing else
C27_Witness ==
    /\ ReadingUri(WeatherUri(Word.chicago_il, <<"3">>))
    /\ Stamped(Payload)
    /\ Payload.contents[1].text.generated = 1
    /\ ReadAt(0) # Payload
    /\ Unstamped(ReadAt(0)) = Unstamped(Payload)

\* ------------------------------------- properties of the outbound requests
\* how many of the blocking operations l are `op`
RECURSIVE CountOp(_, _)
CountOp(l, op) ==
    IF l = <<>> THEN 0 ELSE (IF Head(l) = op THEN 1 ELSE 0) + CountOp(Tail(l), op)

\* the requests sent and not yet answered after the first n operations of l
InFlight(l, n) == CountOp(SubSeq(l, 1, n), "send") - CountOp(SubSeq(l, 1, n), "recv")

\* C28: one tool invocation issues its outbound HTTP requests one after the
\* other, each only when the one before has been answered, and at most two of
\* them: get_weather_alerts at most one, get_coordinates and
\* get_weather_forecast at most two; the forecast-document request is issued
\* only after the grid-point request was answered by a document holding a
\* forecast link, and goes to that link.
C28_SequentialChain ==
    /\ Len(sent) <= 2
    /\ CountOp(log, "send") = Len(sent)
    /\ \A n \in 0..Len(log) : InFlight(log, n) \in {0, 1}
    /\ Len(answers) \in {Len(sent) - 1, Len(sent)}
    /\ tool = "get_weather_alerts" => Len(sent) <= 1
    /\ tool \notin {"get_weather_alerts", "get_coordinates", "get_weather_forecast"}
        => sent = <<>>
    /\ tool = "get_weather_forecast" /\ Len(sent) = 2
        => /\ Len(answers) >= 1
           /\ ~IsFault(answers[1])
           /\ ~LacksForecastLink(answers[1])
           /\ sent[1] = GridUrl(args.latitude, args.longitude)
           /\ sent[2] = ForecastUrl(answers[1].properties.forecast)

\* C28 witness: a get_coordinates call that has issued its second query after
\* the first was answered, and has the second answer too
C28_Witness ==
    /\ tool = "get_coordinates"
    /\ pc = "done"
    /\ Len(sent) = 2
    /\ log = <<"sleep", "send", "recv", "sleep", "send", "recv">>

\* ------------------------------------------ properties of every envelope
\* the requests the three endpoints are posted
PostRequests == ToolRequests \cup ResourceRequests \cup PromptRequests

\* C30: whatever the method and the parameters, the response a handler of
\* /mcp/tools, /mcp/resources or /mcp/prompts returns carries the id of the
\* request it answers (null when the request has none), and exactly one of its
\* result and error is non-null: a result that is a JSON object, or an error
\* that holds a code and a message.
C30_IdAndOneOfResultError ==
    Responded =>
        /\ request \in PostRequests
        /\ response # NoResponse
        /\ response.id = request.id
        /\ response.jsonrpc = "2.0"
        /\ \/ response.result # PyNone /\ response.error = PyNone
           \/ /\ response.result = PyNone /\ response.error # PyNone
              /\ DOMAIN response.error = {"code", "message"}
              /\ response.error.code \in {-32601, -32602, -32603}

\* C30 witness: a prompts/get with id 7 for an unknown prompt, answered by an
\* envelope with id 7, a result and a null error
C30_Witness ==
    /\ Answered("/mcp/prompts", "prompts/get")
    /\ request.id = Num(7)
    /\ response.id = Num(7)
    /\ response.result # PyNone
    /\ response.error = PyNone
    /\ "error" \in DOMAIN response.result

====
